---- MODULE Spec2Model ----
(***************************************************************************)
(* Credential store, certificate selector and credential refresher of      *)
(* sillyproxy: loadCertMap / reloadCertMap (keystore.go), returnCert /     *)
(* isSigAlgSupported (returnCert.go) and the start-up sequence of          *)
(* SillyProxy (sillyProxy.go).                                             *)
(*                                                                         *)
(* Strings are sequences of tokens, so that concatenation, HasPrefix and   *)
(* HasSuffix are computed and not assumed: the alias "h:ECDSA" is          *)
(* <<"h", ":ECDSA">>, the empty server name is <<>>.                       *)
(***************************************************************************)
EXTENDS Integers, Sequences, FiniteSets, TLC

VARIABLES
    archive,             \* the keystore file on disk
    certMap,             \* var certMap map[string]tls.Certificate
    ECDSAdefaultExists,  \* var ECDSAdefaultExists
    ECDSAdefault,        \* *ECDSAdefault (the object behind the pointer)
    RSAdefaultExists,    \* var RSAdefaultExists
    RSAdefault,          \* *RSAdefault
    phase,               \* position of SillyProxy: boot, serving, failed, crashed, stopped
    loadErr,             \* what the last loadCertMap call returned
    rl,                  \* the refresher goroutine: position and locals
    hs,                  \* one TLS handshake: position, hello, locals, result
    password,            \* keyStorePassBytes: "secret" or "zero"
    sig,                 \* the signal-handler goroutine: position
    http,                \* one inbound HTTP request: position, inputs, outcome
    minVersionTLS,       \* var minVersionTLS uint16
    call,                \* SillyProxy: the calls made, the last one's arguments and results
    gen                  \* GenerateKeyStore: position, arguments, answers, result

vars == <<archive, certMap, ECDSAdefaultExists, ECDSAdefault,
          RSAdefaultExists, RSAdefault, phase, loadErr, rl, hs,
          password, sig, http, minVersionTLS, call, gen>>

\* what only SillyProxy as a whole and the keystore tool write
toolVars == <<minVersionTLS, call, gen>>

\* what the credential side leaves alone
sideVars == <<password, sig, http, toolVars>>

storeVars == <<certMap, ECDSAdefaultExists, ECDSAdefault,
               RSAdefaultExists, RSAdefault>>

(***************************************************************************)
(* Bounds                                                                  *)
(***************************************************************************)
\* certificate generations an archive can carry (old / renewed)
MaxVer == 2
\* entries of one archive that are not a well-formed private-key entry
MaxDefects == 1

(***************************************************************************)
(* Strings                                                                 *)
(***************************************************************************)
HasPrefix(s, p) == Len(s) >= Len(p) /\ SubSeq(s, 1, Len(p)) = p

HasSuffix(s, p) == Len(s) >= Len(p) /\ SubSeq(s, Len(s) - Len(p) + 1, Len(s)) = p

Default == <<"default">>

HostH == <<"h">>

HostG == <<"g">>

SfxECDSA == <<":ECDSA">>

SfxRSA == <<":RSA">>

SfxDSA == <<":DSA">>

\* the aliases an archive can hold
AliasUniverse ==
    { Default \o SfxECDSA, Default \o SfxRSA, Default \o SfxDSA,
      HostH \o SfxECDSA, HostH \o SfxRSA }

(***************************************************************************)
(* Cipher-suite tables, literally                                          *)
(***************************************************************************)
CiphersECDSA ==
    << 49159, 49161, 49162, 49187,
       49195, 49196, 52393, 49197,
       49198, 49188, 49189, 49190,
       49160 >>

CiphersRSA ==
    << 49169, 49170, 49171, 49172,
       49199, 49200, 49191, 156,
       157, 53, 60, 52392,
       47, 10, 5, 60,
       49191, 49192 >>

\* isSigAlgSupported returning true after the loops instead of false
isSigAlgSupported_AnyOffer(cipherSuites, ciphersListToCompare) ==
    \/ \E i \in 1..Len(cipherSuites) :
          \E j \in 1..Len(ciphersListToCompare) :
              cipherSuites[i] = ciphersListToCompare[j]
    \/ TRUE

\* the nested loops of isSigAlgSupported: some offered suite equals some
\* entry of the table
isSigAlgSupported(cipherSuites, ciphersListToCompare) ==
    \E i \in 1..Len(cipherSuites) :
        \E j \in 1..Len(ciphersListToCompare) :
            cipherSuites[i] = ciphersListToCompare[j]

(***************************************************************************)
(* Certificates and archives                                               *)
(***************************************************************************)
\* tls.Certificate{}
ZeroCert == [Certificate |-> <<>>, PrivateKey |-> <<>>]

\* the tls.Certificate loadCertMap builds from a private-key entry
CertOf(alias, entry) ==
    [Certificate |-> <<alias, entry.ver>>, PrivateKey |-> <<alias, entry.ver>>]

\* key:     private-key entry, chain present, key parses
\* badkey:  private-key entry, chain present, parsePrivateKey fails
\* nochain: private-key entry with an empty certificate chain
\* locked:  private-key entry that GetPrivateKeyEntry cannot decrypt
\* trusted: trusted-certificate entry (not a private-key entry)
\* nopem:   private-key entry, chain present, the key bytes hold no PEM
\*          block (a DER key as keytool stores it): pem.Decode returns nil
Kinds == {"key", "badkey", "nochain", "locked", "trusted"}

\* the entries a keystore can hold: a well-formed one of some certificate
\* generation, or a defective one
EntryVals(vers) ==
    [kind : {"key"}, ver : vers] \cup [kind : Kinds \ {"key"}, ver : {1}]

Defects(e) == Cardinality({a \in DOMAIN e : e[a].kind # "key"})

\* the file is unreadable: absent, wrong password or malformed
Unreadable == [readable |-> FALSE, entries |-> <<>>]

\* the keystores over aliases with certificate generations vers of which
\* at most maxDefects entries are defective
KeyStores(aliases, vers, maxDefects) ==
    UNION { { [readable |-> TRUE, entries |-> e] :
                e \in {ee \in [S -> EntryVals(vers)] : Defects(ee) <= maxDefects} } :
            S \in SUBSET aliases }

\* the contents of the keystore file: well-formed keystores or no keystore
Archives == {Unreadable} \cup KeyStores(AliasUniverse, {1}, 0)

\* the same with defective entries
LoadArchives == {Unreadable} \cup KeyStores(AliasUniverse, {1}, MaxDefects)

\* keyStore.IsPrivateKeyEntry(alias)
aliasExists(ks, alias) ==
    alias \in DOMAIN ks /\ ks[alias].kind # "trusted"

(***************************************************************************)
(* The store as a value                                                    *)
(***************************************************************************)
Store ==
    [certMap |-> certMap,
     ECDSAdefaultExists |-> ECDSAdefaultExists, ECDSAdefault |-> ECDSAdefault,
     RSAdefaultExists |-> RSAdefaultExists, RSAdefault |-> RSAdefault]

MapPut(m, key, val) ==
    [x \in (DOMAIN m) \cup {key} |-> IF x = key THEN val ELSE m[x]]

\* the alias loop keeping an entry certMap already has instead of replacing it
LoadEntry_KeepExisting(st, alias, entry) ==
    IF entry.kind \in {"locked", "trusted"}
    THEN [store |-> st, err |-> "fetch"]
    ELSE IF entry.kind = "nochain"
    THEN [store |-> st, err |-> "nil"]
    ELSE IF entry.kind = "nopem"
    THEN [store |-> st, err |-> "panic"]
    ELSE IF entry.kind = "badkey"
    THEN [store |-> st, err |-> "nil"]
    ELSE IF HasPrefix(alias, Default)
    THEN IF HasSuffix(alias, SfxECDSA)
         THEN [store |-> [st EXCEPT !.ECDSAdefaultExists = TRUE,
                                    !.ECDSAdefault = CertOf(alias, entry)],
               err |-> "nil"]
         ELSE [store |-> [st EXCEPT !.RSAdefaultExists = TRUE,
                                    !.RSAdefault = CertOf(alias, entry)],
               err |-> "nil"]
    ELSE IF alias \in DOMAIN st.certMap
    THEN [store |-> st, err |-> "nil"]
    ELSE [store |-> [st EXCEPT !.certMap = MapPut(st.certMap, alias, CertOf(alias, entry))],
          err |-> "nil"]

\* one iteration of the alias loop of loadCertMap on store value st
LoadEntry(st, alias, entry) ==
    IF entry.kind \in {"locked", "trusted"}
    THEN [store |-> st, err |-> "fetch"]
    ELSE IF entry.kind = "nochain"
    THEN [store |-> st, err |-> "nil"]
    ELSE IF entry.kind = "nopem"
    THEN [store |-> st, err |-> "panic"]
    ELSE IF entry.kind = "badkey"
    THEN [store |-> st, err |-> "nil"]
    ELSE IF HasPrefix(alias, Default)
    THEN IF HasSuffix(alias, SfxECDSA)
         THEN [store |-> [st EXCEPT !.ECDSAdefaultExists = TRUE,
                                    !.ECDSAdefault = CertOf(alias, entry)],
               err |-> "nil"]
         ELSE [store |-> [st EXCEPT !.RSAdefaultExists = TRUE,
                                    !.RSAdefault = CertOf(alias, entry)],
               err |-> "nil"]
    ELSE [store |-> [st EXCEPT !.certMap = MapPut(st.certMap, alias, CertOf(alias, entry))],
          err |-> "nil"]

\* the alias loop over the slice keyStore.Aliases() returned
RECURSIVE LoadAliases(_, _, _)
LoadAliases(st, ks, aliases) ==
    IF aliases = <<>>
    THEN [store |-> st, err |-> "nil"]
    ELSE LET r == LoadEntry(st, Head(aliases), ks[Head(aliases)])
         IN  IF r.err # "nil" THEN r ELSE LoadAliases(r.store, ks, Tail(aliases))

\* the check that some default alias exists
DefaultAliasExists(ks) ==
    \/ aliasExists(ks, Default \o SfxRSA)
    \/ aliasExists(ks, Default \o SfxECDSA)
    \/ aliasExists(ks, Default \o SfxDSA)

\* loadCertMap on file content file, the aliases coming in order aliases
loadCertMap(st, file, aliases) ==
    IF ~file.readable
    THEN [store |-> st, err |-> "open"]
    ELSE IF ~DefaultAliasExists(file.entries)
    THEN [store |-> st, err |-> "nodefault"]
    ELSE LoadAliases(st, file.entries, aliases)

\* the orders in which keyStore.Aliases() can return the aliases (it ranges
\* over a Go map)
RECURSIVE Orders(_)
Orders(S) ==
    IF S = {} THEN {<<>>}
    ELSE UNION { { <<a>> \o o : o \in Orders(S \ {a}) } : a \in S }

AliasOrders(file) == Orders(DOMAIN file.entries)

(***************************************************************************)
(* returnCert                                                              *)
(***************************************************************************)
\* offered cipher-suite lists: none, an ECDSA suite, an RSA suite, both,
\* a DSA suite that is in neither table
SuiteLists == { <<>>, <<49195>>, <<156>>, <<49195, 156>>, <<64>> }

ServerNames == { <<>>, HostH, HostG }

Hellos == [ServerName : ServerNames, CipherSuites : SuiteLists]

NoCert == [src |-> "error", cert |-> ZeroCert]

\* returnCert trying RSA before ECDSA
returnCert_RsaFirst(helloInfo, st) ==
    LET aliasToLookFor == IF helloInfo.ServerName = <<>> THEN Default
                          ELSE helloInfo.ServerName
        ecdsaExists == (aliasToLookFor \o SfxECDSA) \in DOMAIN st.certMap
        rsaExists   == (aliasToLookFor \o SfxRSA) \in DOMAIN st.certMap
        supE == isSigAlgSupported(helloInfo.CipherSuites, CiphersECDSA)
        supR == isSigAlgSupported(helloInfo.CipherSuites, CiphersRSA)
        remoteSupportsECDSA == IF ecdsaExists /\ ~supE THEN -1 ELSE 0
        remoteSupportsRSA   == IF rsaExists /\ ~supR THEN -1 ELSE 0
    IN  IF rsaExists /\ supR
        THEN [src |-> "hostRSA", cert |-> st.certMap[aliasToLookFor \o SfxRSA]]
        ELSE IF ecdsaExists /\ supE
        THEN [src |-> "hostECDSA", cert |-> st.certMap[aliasToLookFor \o SfxECDSA]]
        ELSE IF st.RSAdefaultExists /\ remoteSupportsRSA # -1 /\ supR
        THEN [src |-> "RSAdefault", cert |-> st.RSAdefault]
        ELSE IF st.ECDSAdefaultExists /\ remoteSupportsECDSA # -1 /\ supE
        THEN [src |-> "ECDSAdefault", cert |-> st.ECDSAdefault]
        ELSE NoCert

\* returnCert handing out ECDSAdefault without asking isSigAlgSupported
returnCert_DefaultUnchecked(helloInfo, st) ==
    LET aliasToLookFor == IF helloInfo.ServerName = <<>> THEN Default
                          ELSE helloInfo.ServerName
        ecdsaExists == (aliasToLookFor \o SfxECDSA) \in DOMAIN st.certMap
        rsaExists   == (aliasToLookFor \o SfxRSA) \in DOMAIN st.certMap
        supE == isSigAlgSupported(helloInfo.CipherSuites, CiphersECDSA)
        supR == isSigAlgSupported(helloInfo.CipherSuites, CiphersRSA)
        remoteSupportsECDSA == IF ecdsaExists /\ ~supE THEN -1 ELSE 0
        remoteSupportsRSA   == IF rsaExists /\ ~supR THEN -1 ELSE 0
    IN  IF ecdsaExists /\ supE
        THEN [src |-> "hostECDSA", cert |-> st.certMap[aliasToLookFor \o SfxECDSA]]
        ELSE IF rsaExists /\ supR
        THEN [src |-> "hostRSA", cert |-> st.certMap[aliasToLookFor \o SfxRSA]]
        ELSE IF st.ECDSAdefaultExists /\ remoteSupportsECDSA # -1
        THEN [src |-> "ECDSAdefault", cert |-> st.ECDSAdefault]
        ELSE IF st.RSAdefaultExists /\ remoteSupportsRSA # -1 /\ supR
        THEN [src |-> "RSAdefault", cert |-> st.RSAdefault]
        ELSE NoCert

\* returnCert without the two default slots
returnCert_NoDefaults(helloInfo, st) ==
    LET aliasToLookFor == IF helloInfo.ServerName = <<>> THEN Default
                          ELSE helloInfo.ServerName
        ecdsaExists == (aliasToLookFor \o SfxECDSA) \in DOMAIN st.certMap
        rsaExists   == (aliasToLookFor \o SfxRSA) \in DOMAIN st.certMap
        supE == isSigAlgSupported(helloInfo.CipherSuites, CiphersECDSA)
        supR == isSigAlgSupported(helloInfo.CipherSuites, CiphersRSA)
    IN  IF ecdsaExists /\ supE
        THEN [src |-> "hostECDSA", cert |-> st.certMap[aliasToLookFor \o SfxECDSA]]
        ELSE IF rsaExists /\ supR
        THEN [src |-> "hostRSA", cert |-> st.certMap[aliasToLookFor \o SfxRSA]]
        ELSE NoCert

\* returnCert against store value st; src names the entry or slot the
\* returned pointer refers to, cert the certificate it holds at return
returnCert(helloInfo, st) ==
    LET aliasToLookFor == IF helloInfo.ServerName = <<>> THEN Default
                          ELSE helloInfo.ServerName
        ecdsaExists == (aliasToLookFor \o SfxECDSA) \in DOMAIN st.certMap
        rsaExists   == (aliasToLookFor \o SfxRSA) \in DOMAIN st.certMap
        supE == isSigAlgSupported(helloInfo.CipherSuites, CiphersECDSA)
        supR == isSigAlgSupported(helloInfo.CipherSuites, CiphersRSA)
        remoteSupportsECDSA == IF ecdsaExists /\ ~supE THEN -1 ELSE 0
        remoteSupportsRSA   == IF rsaExists /\ ~supR THEN -1 ELSE 0
    IN  IF ecdsaExists /\ supE
        THEN [src |-> "hostECDSA", cert |-> st.certMap[aliasToLookFor \o SfxECDSA]]
        ELSE IF rsaExists /\ supR
        THEN [src |-> "hostRSA", cert |-> st.certMap[aliasToLookFor \o SfxRSA]]
        ELSE IF st.ECDSAdefaultExists /\ remoteSupportsECDSA # -1 /\ supE
        THEN [src |-> "ECDSAdefault", cert |-> st.ECDSAdefault]
        ELSE IF st.RSAdefaultExists /\ remoteSupportsRSA # -1 /\ supR
        THEN [src |-> "RSAdefault", cert |-> st.RSAdefault]
        ELSE NoCert

(***************************************************************************)
(* Initial state: the globals as declared, the process not yet started     *)
(***************************************************************************)
RlWait == [pc |-> "wait"]

HsIdle == [pc |-> "idle"]

\* the signal handler waits in its select
SigIdle == [pc |-> "idle"]

\* no request is being served
HttpIdle == [pc |-> "idle"]

\* tls.VersionTLS10, tls.VersionTLS11, tls.VersionTLS12
VersionTLS10 == 769

VersionTLS11 == 770

VersionTLS12 == 771

\* a nil *http.Server
NoServer == [MinVersion |-> 0, Handler |-> <<>>, nil |-> TRUE]

\* SillyProxy has not been called
NoCall ==
    [n |-> 0, minTLSVer |-> 0, before |-> VersionTLS10, routeFile |-> <<>>,
     server |-> NoServer, err |-> "none", loadError |-> "none", refreshers |-> 0]

\* the keystore tool is not running
GenIdle == [pc |-> "idle"]

\* the declared globals, the process not yet started, the file being any of
\* files
InitWith(files) ==
    /\ archive \in files
    /\ certMap = <<>>
    /\ ECDSAdefaultExists = FALSE
    /\ ECDSAdefault = ZeroCert
    /\ RSAdefaultExists = FALSE
    /\ RSAdefault = ZeroCert
    /\ phase = "boot"
    /\ loadErr = "none"
    /\ rl = RlWait
    /\ hs = HsIdle
    /\ password = "secret"
    /\ sig = SigIdle
    /\ http = HttpIdle
    /\ minVersionTLS = VersionTLS10
    /\ call = NoCall
    /\ gen = GenIdle

Init == InitWith(Archives)

SetStore(st) ==
    /\ certMap' = st.certMap
    /\ ECDSAdefaultExists' = st.ECDSAdefaultExists
    /\ ECDSAdefault' = st.ECDSAdefault
    /\ RSAdefaultExists' = st.RSAdefaultExists
    /\ RSAdefault' = st.RSAdefault

(***************************************************************************)
(* Operations, each as one step                                            *)
(***************************************************************************)
\* SillyProxy: certMap = make(...), the initial loadCertMap, and on success
\* the refresher goroutine is started and the server handed out
Startup ==
    /\ phase = "boot"
    /\ \E aliases \in AliasOrders(archive) :
         LET r == loadCertMap([Store EXCEPT !.certMap = <<>>], archive, aliases)
         IN  /\ SetStore(r.store)
             /\ loadErr' = r.err
             /\ phase' = IF r.err = "nil" THEN "serving"
                        ELSE IF r.err = "panic" THEN "crashed"
                        ELSE "failed"
    /\ UNCHANGED <<archive, rl, hs>>
    /\ UNCHANGED sideVars

\* reloadCertMap, case <-ticker.C: one loadCertMap, its error only logged;
\* a panic in the goroutine ends the process
Tick ==
    /\ phase = "serving"
    /\ rl.pc = "wait"
    /\ hs.pc = "idle"
    /\ \E aliases \in AliasOrders(archive) :
         LET r == loadCertMap(Store, archive, aliases)
         IN  /\ SetStore(r.store)
             /\ loadErr' = r.err
             /\ phase' = IF r.err = "panic" THEN "crashed" ELSE phase
    /\ UNCHANGED <<archive, rl, hs>>
    /\ UNCHANGED sideVars

\* the entries e without alias x
Without(e, x) == [y \in DOMAIN e \ {x} |-> e[y]]

\* what one rewrite can make of the file, which is one of files: the
\* keystore tool adds, replaces or removes the entry of one of aliases, or
\* the file is taken away, or put back
Rewrites(file, files, aliases, vers, maxDefects) ==
    IF ~file.readable
    THEN files \ {file}
    ELSE {Unreadable} \cup
         { b \in { [readable |-> TRUE, entries |-> MapPut(file.entries, x, v)] :
                      x \in aliases, v \in EntryVals(vers) }
                 \cup { [readable |-> TRUE, entries |-> Without(file.entries, x)] :
                          x \in aliases \cap DOMAIN file.entries } :
             b # file /\ Defects(b.entries) <= maxDefects }

\* the operator rewrites the keystore file.  loadCertMap reads the file in
\* one go, so a rewrite during a load acts like one after it.
EditArchive ==
    /\ phase = "serving"
    /\ rl.pc = "wait"
    /\ hs.pc = "idle"
    /\ archive' \in Rewrites(archive, Archives, AliasUniverse, {1}, 0)
    /\ UNCHANGED <<storeVars, phase, loadErr, rl, hs>>
    /\ UNCHANGED sideVars

\* a TLS handshake calls GetCertificate = returnCert
Handshake ==
    /\ phase = "serving"
    /\ rl.pc = "wait"
    /\ hs.pc = "idle"
    /\ \E helloInfo \in Hellos :
         hs' = [pc |-> "done", hello |-> helloInfo, ret |-> returnCert(helloInfo, Store)]
    /\ UNCHANGED <<archive, storeVars, phase, loadErr, rl>>
    /\ UNCHANGED sideVars

\* the handshake finishes and the connection goes away
HandshakeEnd ==
    /\ hs.pc = "done"
    /\ rl.pc = "wait"
    /\ hs' = HsIdle
    /\ UNCHANGED <<archive, storeVars, phase, loadErr, rl>>
    /\ UNCHANGED sideVars

Next ==
    \/ Startup
    \/ Tick
    \/ EditArchive
    \/ Handshake
    \/ HandshakeEnd

Spec == Init /\ [][Next]_vars

(***************************************************************************)
(* The loader on keystores that may hold defective entries                 *)
(***************************************************************************)
InitLoad == InitWith(LoadArchives)

LoadEdit ==
    /\ phase = "serving"
    /\ rl.pc = "wait"
    /\ hs.pc = "idle"
    /\ archive' \in Rewrites(archive, LoadArchives, AliasUniverse, {1}, MaxDefects)
    /\ UNCHANGED <<storeVars, phase, loadErr, rl, hs>>
    /\ UNCHANGED sideVars

NextLoad ==
    \/ Startup
    \/ Tick
    \/ LoadEdit

SpecLoad == InitLoad /\ [][NextLoad]_vars

(***************************************************************************)
(* The loader on keystores whose private keys may fail to decode: no PEM   *)
(* block, a PEM block parsePrivateKey rejects, or no certificate chain     *)
(***************************************************************************)
ParseAliases == { Default \o SfxECDSA, Default \o SfxRSA, HostH \o SfxECDSA }

\* the entries GetPrivateKeyEntry returns
ParseEntryVals ==
    [kind : {"key"}, ver : 1..MaxVer] \cup [kind : {"badkey", "nochain", "nopem"}, ver : {1}]

ParseArchives ==
    UNION { { [readable |-> TRUE, entries |-> e] :
                e \in {ee \in [S -> ParseEntryVals] : Defects(ee) <= MaxDefects} } :
            S \in SUBSET ParseAliases }

InitParse == InitWith(ParseArchives)

\* the operator replaces, adds or removes one entry of the keystore file
ParseEdit ==
    /\ phase = "serving"
    /\ rl.pc = "wait"
    /\ hs.pc = "idle"
    /\ archive' \in { b \in { [readable |-> TRUE, entries |-> MapPut(archive.entries, x, v)] :
                                x \in ParseAliases, v \in ParseEntryVals }
                           \cup { [readable |-> TRUE, entries |-> Without(archive.entries, x)] :
                                    x \in ParseAliases \cap DOMAIN archive.entries } :
                        b # archive /\ Defects(b.entries) <= MaxDefects }
    /\ UNCHANGED <<storeVars, phase, loadErr, rl, hs>>
    /\ UNCHANGED sideVars

NextParse ==
    \/ Startup
    \/ Tick
    \/ ParseEdit

SpecParse == InitParse /\ [][NextParse]_vars

(***************************************************************************)
(* The loader on keystores with a host whose name begins with "default"    *)
(***************************************************************************)
\* the host name default.example.com
HostDefaultish == <<"default", ".example.com">>

PrefixAliases ==
    { Default \o SfxECDSA, Default \o SfxRSA,
      HostDefaultish \o SfxECDSA, HostDefaultish \o SfxRSA, HostH \o SfxRSA }

PrefixArchives == {Unreadable} \cup KeyStores(PrefixAliases, {1}, 0)

InitPrefix == InitWith(PrefixArchives)

PrefixEdit ==
    /\ phase = "serving"
    /\ rl.pc = "wait"
    /\ hs.pc = "idle"
    /\ archive' \in Rewrites(archive, PrefixArchives, PrefixAliases, {1}, 0)
    /\ UNCHANGED <<storeVars, phase, loadErr, rl, hs>>
    /\ UNCHANGED sideVars

NextPrefix ==
    \/ Startup
    \/ Tick
    \/ PrefixEdit

SpecPrefix == InitPrefix /\ [][NextPrefix]_vars

(***************************************************************************)
(* The same program with the refresher goroutine and a handshake           *)
(* goroutine taking their steps one shared-memory access at a time.  No    *)
(* lock or channel orders the two, so every interleaving is possible.      *)
(***************************************************************************)
\* aliasToLookFor
AliasOf(helloInfo) ==
    IF helloInfo.ServerName = <<>> THEN Default ELSE helloInfo.ServerName

\* archives and hellos of the interleaved runs
RaceAliases == { Default \o SfxECDSA, Default \o SfxRSA, HostH \o SfxECDSA }

RaceArchives == {Unreadable} \cup KeyStores(RaceAliases, 1..MaxVer, 0)

RaceHellos == [ServerName : {<<>>, HostH}, CipherSuites : {<<49195, 156>>, <<156>>}]

InitRace == InitWith(RaceArchives)

RaceEdit ==
    /\ phase = "serving"
    /\ rl.pc = "wait"
    /\ hs.pc = "idle"
    /\ archive' \in Rewrites(archive, RaceArchives, RaceAliases, 1..MaxVer, 0)
    /\ UNCHANGED <<storeVars, phase, loadErr, rl, hs>>
    /\ UNCHANGED sideVars

\* case <-ticker.C: loadCertMap opens and decodes the file and checks for a
\* default alias
RlOpen ==
    /\ phase = "serving"
    /\ rl.pc = "wait"
    /\ IF ~archive.readable \/ password = "zero"
       THEN loadErr' = "open" /\ rl' = rl
       ELSE IF ~DefaultAliasExists(archive.entries)
       THEN loadErr' = "nodefault" /\ rl' = rl
       ELSE /\ rl' = [pc |-> "loop", ks |-> archive.entries,
                      todo |-> DOMAIN archive.entries]
            /\ loadErr' = loadErr
    /\ UNCHANGED <<archive, storeVars, phase, hs>>
    /\ UNCHANGED sideVars

\* one iteration of the alias loop up to its first write to shared memory
RlEntry ==
    /\ phase = "serving"
    /\ rl.pc = "loop"
    /\ \E alias \in rl.todo :
         LET entry == rl.ks[alias] IN
         IF entry.kind \in {"locked", "trusted"}
         THEN /\ loadErr' = "fetch"
              /\ rl' = RlWait
              /\ UNCHANGED storeVars
         ELSE IF entry.kind \in {"nochain", "badkey"}
         THEN /\ rl' = [rl EXCEPT !.todo = @ \ {alias}]
              /\ UNCHANGED <<storeVars, loadErr>>
         ELSE IF HasPrefix(alias, Default)
         THEN /\ IF HasSuffix(alias, SfxECDSA)
                 THEN ECDSAdefaultExists' = TRUE /\ UNCHANGED RSAdefaultExists
                 ELSE RSAdefaultExists' = TRUE /\ UNCHANGED ECDSAdefaultExists
              /\ rl' = [pc |-> "slot", ks |-> rl.ks, todo |-> rl.todo, cur |-> alias,
                        left |-> {"Certificate", "PrivateKey"}]
              /\ UNCHANGED <<certMap, ECDSAdefault, RSAdefault, loadErr>>
         ELSE /\ rl' = [pc |-> "mapassign", ks |-> rl.ks, todo |-> rl.todo, cur |-> alias]
              /\ UNCHANGED <<storeVars, loadErr>>
    /\ UNCHANGED <<archive, phase, hs>>
    /\ UNCHANGED sideVars

\* *ECDSAdefault = cert / *RSAdefault = cert: a struct copy, one field at a
\* time and in no particular order
RlSlotField ==
    /\ phase = "serving"
    /\ rl.pc = "slot"
    /\ \E f \in rl.left :
         LET cert == CertOf(rl.cur, rl.ks[rl.cur]) IN
         /\ IF HasSuffix(rl.cur, SfxECDSA)
            THEN ECDSAdefault' = [ECDSAdefault EXCEPT ![f] = cert[f]] /\ UNCHANGED RSAdefault
            ELSE RSAdefault' = [RSAdefault EXCEPT ![f] = cert[f]] /\ UNCHANGED ECDSAdefault
         /\ rl' = IF rl.left = {f}
                  THEN [pc |-> "loop", ks |-> rl.ks, todo |-> rl.todo \ {rl.cur}]
                  ELSE [rl EXCEPT !.left = @ \ {f}]
    /\ UNCHANGED <<archive, certMap, ECDSAdefaultExists, RSAdefaultExists, phase,
                   loadErr, hs>>
    /\ UNCHANGED sideVars

\* (*certMap)[alias] = cert: the map assignment completes
RlMapAssign ==
    /\ phase = "serving"
    /\ rl.pc = "mapassign"
    /\ certMap' = MapPut(certMap, rl.cur, CertOf(rl.cur, rl.ks[rl.cur]))
    /\ rl' = [pc |-> "loop", ks |-> rl.ks, todo |-> rl.todo \ {rl.cur}]
    /\ UNCHANGED <<archive, ECDSAdefaultExists, ECDSAdefault, RSAdefaultExists,
                   RSAdefault, phase, loadErr, hs>>
    /\ UNCHANGED sideVars

\* the loop is over: f.Close(); return nil
RlReturn ==
    /\ phase = "serving"
    /\ rl.pc = "loop"
    /\ rl.todo = {}
    /\ loadErr' = "nil"
    /\ rl' = RlWait
    /\ UNCHANGED <<archive, storeVars, phase, hs>>
    /\ UNCHANGED sideVars

\* a ClientHello arrives and crypto/tls calls returnCert
HsHello ==
    /\ phase = "serving"
    /\ hs.pc = "idle"
    /\ \E helloInfo \in RaceHellos :
         hs' = [pc |-> "lookupECDSA", hello |-> helloInfo,
                remoteSupportsECDSA |-> 0, remoteSupportsRSA |-> 0, ret |-> NoCert]
    /\ UNCHANGED <<archive, storeVars, phase, loadErr, rl>>
    /\ UNCHANGED sideVars

\* what a read of certMap can see: the map, or, while the refresher is inside
\* its map assignment, the map before or after it
MapViews ==
    IF rl.pc = "mapassign"
    THEN {certMap, MapPut(certMap, rl.cur, CertOf(rl.cur, rl.ks[rl.cur]))}
    ELSE {certMap}

\* a read of certMap while the refresher is inside its map assignment: the Go
\* runtime may stop the process (concurrent map read and map write)
HsMapFault ==
    /\ phase = "serving"
    /\ hs.pc \in {"lookupECDSA", "lookupRSA"}
    /\ rl.pc = "mapassign"
    /\ phase' = "crashed"
    /\ UNCHANGED <<archive, storeVars, loadErr, rl, hs>>
    /\ UNCHANGED sideVars

\* if ecdsa, exists := certMap[aliasToLookFor+":ECDSA"]; exists {...}
HsLookupECDSA ==
    /\ phase = "serving"
    /\ hs.pc = "lookupECDSA"
    /\ \E m \in MapViews :
         LET key == AliasOf(hs.hello) \o SfxECDSA IN
         IF key \in DOMAIN m
         THEN IF isSigAlgSupported(hs.hello.CipherSuites, CiphersECDSA)
              THEN hs' = [hs EXCEPT !.pc = "returned",
                                    !.ret = [src |-> "hostECDSA", cert |-> m[key]]]
              ELSE hs' = [hs EXCEPT !.pc = "lookupRSA", !.remoteSupportsECDSA = -1]
         ELSE hs' = [hs EXCEPT !.pc = "lookupRSA"]
    /\ UNCHANGED <<archive, storeVars, phase, loadErr, rl>>
    /\ UNCHANGED sideVars

\* if rsa, exists := certMap[aliasToLookFor+":RSA"]; exists {...}
HsLookupRSA ==
    /\ phase = "serving"
    /\ hs.pc = "lookupRSA"
    /\ \E m \in MapViews :
         LET key == AliasOf(hs.hello) \o SfxRSA IN
         IF key \in DOMAIN m
         THEN IF isSigAlgSupported(hs.hello.CipherSuites, CiphersRSA)
              THEN hs' = [hs EXCEPT !.pc = "returned",
                                    !.ret = [src |-> "hostRSA", cert |-> m[key]]]
              ELSE hs' = [hs EXCEPT !.pc = "defaultECDSA", !.remoteSupportsRSA = -1]
         ELSE hs' = [hs EXCEPT !.pc = "defaultECDSA"]
    /\ UNCHANGED <<archive, storeVars, phase, loadErr, rl>>
    /\ UNCHANGED sideVars

\* if ECDSAdefaultExists && (remoteSupportsECDSA != -1) {...}; cert is what
\* the returned pointer designates at the return
HsDefaultECDSA ==
    /\ phase = "serving"
    /\ hs.pc = "defaultECDSA"
    /\ hs' = IF /\ ECDSAdefaultExists
                /\ hs.remoteSupportsECDSA # -1
                /\ isSigAlgSupported(hs.hello.CipherSuites, CiphersECDSA)
             THEN [hs EXCEPT !.pc = "returned",
                             !.ret = [src |-> "ECDSAdefault", cert |-> ECDSAdefault]]
             ELSE [hs EXCEPT !.pc = "defaultRSA"]
    /\ UNCHANGED <<archive, storeVars, phase, loadErr, rl>>
    /\ UNCHANGED sideVars

\* if RSAdefaultExists && (remoteSupportsRSA != -1) {...}; else the error
HsDefaultRSA ==
    /\ phase = "serving"
    /\ hs.pc = "defaultRSA"
    /\ hs' = IF /\ RSAdefaultExists
                /\ hs.remoteSupportsRSA # -1
                /\ isSigAlgSupported(hs.hello.CipherSuites, CiphersRSA)
             THEN [hs EXCEPT !.pc = "returned",
                             !.ret = [src |-> "RSAdefault", cert |-> RSAdefault]]
             ELSE [hs EXCEPT !.pc = "returned", !.ret = NoCert]
    /\ UNCHANGED <<archive, storeVars, phase, loadErr, rl>>
    /\ UNCHANGED sideVars

\* the certificate behind the pointer returnCert returned: &ecdsa and &rsa
\* point to the copy the map lookup made, ECDSAdefault and RSAdefault are the
\* shared objects themselves
Deref(ret) ==
    IF ret.src = "ECDSAdefault" THEN ECDSAdefault
    ELSE IF ret.src = "RSAdefault" THEN RSAdefault
    ELSE ret.cert

\* crypto/tls goes on with the handshake: it sends the chain and signs with
\* the key behind the pointer it was given
HsUse ==
    /\ phase = "serving"
    /\ hs.pc = "returned"
    /\ hs' = [pc |-> "finished", hello |-> hs.hello, ret |-> hs.ret,
              used |-> Deref(hs.ret)]
    /\ UNCHANGED <<archive, storeVars, phase, loadErr, rl>>
    /\ UNCHANGED sideVars

\* the connection goes away
HsEnd ==
    /\ phase = "serving"
    /\ hs.pc = "finished"
    /\ hs' = HsIdle
    /\ UNCHANGED <<archive, storeVars, phase, loadErr, rl>>
    /\ UNCHANGED sideVars

NextRace ==
    \/ Startup
    \/ RaceEdit
    \/ RlOpen
    \/ RlEntry
    \/ RlSlotField
    \/ RlMapAssign
    \/ RlReturn
    \/ HsHello
    \/ HsMapFault
    \/ HsLookupECDSA
    \/ HsLookupRSA
    \/ HsDefaultECDSA
    \/ HsDefaultRSA
    \/ HsUse
    \/ HsEnd

SpecRace == InitRace /\ [][NextRace]_vars

(***************************************************************************)
(* The refresher under fair scheduling: the ticker fires every period and  *)
(* nothing blocks the goroutine, so a reload that is due always comes.     *)
(***************************************************************************)
LiveHosts == { HostH \o SfxECDSA, HostH \o SfxRSA }

\* the keystores that hold a well-formed default entry and any entries for
\* the host, or no keystore
LiveArchives ==
    {Unreadable} \cup
    { [readable |-> TRUE,
       entries |-> MapPut(k.entries, Default \o SfxRSA, [kind |-> "key", ver |-> 1])] :
        k \in KeyStores(LiveHosts, 1..MaxVer, MaxDefects) }

InitLive == InitWith(LiveArchives)

LiveEdit ==
    /\ phase = "serving"
    /\ rl.pc = "wait"
    /\ hs.pc = "idle"
    /\ archive' \in Rewrites(archive, LiveArchives, LiveHosts, 1..MaxVer, MaxDefects)
    /\ UNCHANGED <<storeVars, phase, loadErr, rl, hs>>
    /\ UNCHANGED sideVars

\* case <-sigChannel, in one step: the quit message ends the refresher, the
\* password bytes and the default slots are zeroed (clearOut of the range
\* variable v leaves certMap as it is) and the process exits
Shutdown ==
    /\ phase = "serving"
    /\ rl.pc = "wait"
    /\ hs.pc = "idle"
    /\ ECDSAdefault' = ZeroCert
    /\ RSAdefault' = ZeroCert
    /\ phase' = "stopped"
    /\ rl' = [pc |-> "returned"]
    /\ password' = "zero"
    /\ sig' = [pc |-> "exited"]
    /\ UNCHANGED <<archive, certMap, ECDSAdefaultExists, RSAdefaultExists, loadErr, hs, http, toolVars>>

NextLive ==
    \/ Startup
    \/ Tick
    \/ LiveEdit
    \/ Shutdown

SpecLive == InitLive /\ [][NextLive]_vars /\ WF_vars(Tick)

(***************************************************************************)
(* The shutdown handler, statement by statement, next to the refresher     *)
(* goroutine.  quitReloadChannel is unbuffered: the send in                *)
(* stopReloadKeyStore completes only when the refresher takes case <-quit  *)
(* of its select, which picks any ready case.                              *)
(***************************************************************************)
InitStop == InitWith(RaceArchives)

StopEdit ==
    /\ phase = "serving"
    /\ rl.pc = "wait"
    /\ sig.pc = "idle"
    /\ archive' \in Rewrites(archive, RaceArchives, RaceAliases, 1..MaxVer, 0)
    /\ UNCHANGED <<storeVars, phase, loadErr, rl, hs, sideVars>>

\* case <-sigChannel: stopReloadKeyStore is called and blocks in its send
SigReceive ==
    /\ phase = "serving"
    /\ sig.pc = "idle"
    /\ sig' = [pc |-> "send"]
    /\ UNCHANGED <<archive, storeVars, phase, loadErr, rl, hs, password, http, toolVars>>

\* the send completing although the refresher has not taken it
RlQuit_Buffered ==
    /\ phase = "serving"
    /\ sig.pc = "send"
    /\ sig' = [pc |-> "zeroBytes"]
    /\ UNCHANGED <<archive, storeVars, phase, loadErr, rl, hs, password, http, toolVars>>

\* case <-quit: ticker.Stop() and return; the send of stopReloadKeyStore
\* completes in the same rendezvous
RlQuit ==
    /\ phase = "serving"
    /\ rl.pc = "wait"
    /\ sig.pc = "send"
    /\ rl' = [pc |-> "returned"]
    /\ sig' = [pc |-> "zeroBytes"]
    /\ UNCHANGED <<archive, storeVars, phase, loadErr, hs, password, http, toolVars>>

\* zeroBytes(keyStorePassBytes)
SigZeroBytes ==
    /\ phase = "serving"
    /\ sig.pc = "zeroBytes"
    /\ password' = "zero"
    /\ sig' = [pc |-> "clearMap"]
    /\ UNCHANGED <<archive, storeVars, phase, loadErr, rl, hs, http, toolVars>>

\* for _, v := range certMap { clearOut(&v) }: v is a copy of the map's
\* value, so zeroing it leaves the map's entries as they are
SigClearMap ==
    /\ phase = "serving"
    /\ sig.pc = "clearMap"
    /\ sig' = [pc |-> "clearDefaults"]
    /\ UNCHANGED <<archive, storeVars, phase, loadErr, rl, hs, password, http, toolVars>>

\* clearOut(ECDSAdefault); clearOut(RSAdefault): the pointed-to structs are
\* set to the zero certificate
SigClearDefaults ==
    /\ phase = "serving"
    /\ sig.pc = "clearDefaults"
    /\ ECDSAdefault' = ZeroCert
    /\ RSAdefault' = ZeroCert
    /\ sig' = [pc |-> "exit"]
    /\ UNCHANGED <<archive, certMap, ECDSAdefaultExists, RSAdefaultExists, phase,
                   loadErr, rl, hs, password, http, toolVars>>

\* os.Exit(1)
SigExit ==
    /\ phase = "serving"
    /\ sig.pc = "exit"
    /\ phase' = "stopped"
    /\ sig' = [pc |-> "exited"]
    /\ UNCHANGED <<archive, storeVars, loadErr, rl, hs, password, http, toolVars>>

NextStop ==
    \/ Startup
    \/ StopEdit
    \/ RlOpen
    \/ RlEntry
    \/ RlSlotField
    \/ RlMapAssign
    \/ RlReturn
    \/ SigReceive
    \/ RlQuit
    \/ SigZeroBytes
    \/ SigClearMap
    \/ SigClearDefaults
    \/ SigExit

SpecStop == InitStop /\ [][NextStop]_vars

(***************************************************************************)
(* The request path: proxyHanlderMap.ServeHTTP (phmap.go), the handler     *)
(* that assignRoutes registers and routeBuilder (assignroutes.go),         *)
(* writeErrorResponse and writeResponse (utility/keyStore.go).  URLs, header       *)
(* values and bodies are sequences of tokens; the tokens "/", "?", "%",    *)
(* " " and ":" are single characters.                                      *)
(***************************************************************************)
\* strings.TrimPrefix(s, p)
TrimPrefix(s, p) == IF HasPrefix(s, p) THEN SubSeq(s, Len(p) + 1, Len(s)) ELSE s

\* strings.Split(s, ":")[0]: what stands before the first ":"
RECURSIVE SplitFirst(_)
SplitFirst(s) ==
    IF s = <<>> \/ Head(s) = ":" THEN <<>> ELSE <<Head(s)>> \o SplitFirst(Tail(s))

\* url.PathEscape of one character
EscapeToken(c) ==
    CASE c = "/" -> "%2F"
      [] c = "?" -> "%3F"
      [] c = "%" -> "%25"
      [] c = " " -> "%20"
      [] OTHER -> c

\* url.PathEscape
PathEscape(s) == [i \in 1..Len(s) |-> EscapeToken(s[i])]

\* a Route element decoded by encoding/json into interface{}: a string, a
\* float64 (h is twice its value, so that halves can be told) or anything else
Str(s) == [t |-> "string", s |-> s]

Num(h) == [t |-> "float64", h |-> h]

Other == [t |-> "other"]

\* int(T) of a float64: truncation toward zero
IntOf(h) == IF h >= 0 THEN h \div 2 ELSE -((-h) \div 2)

\* routeBuilder, the loop from the element at hand on.  ps[k] of the source
\* is ps[k + 1] here; an index below zero passes the length test and then
\* panics in ps[int(T)].
RECURSIVE routeBuild(_, _, _)
routeBuild_NoEscape(ps, route, URL) ==
    IF route = <<>> THEN [URL |-> URL, err |-> "nil"]
    ELSE LET element == Head(route)
         IN  CASE element.t = "string" ->
                    routeBuild(ps, Tail(route), URL \o TrimPrefix(element.s, <<"/">>))
               [] element.t = "float64" ->
                    IF Len(ps) > IntOf(element.h)
                    THEN IF IntOf(element.h) < 0
                         THEN [URL |-> URL, err |-> "panic"]
                         ELSE routeBuild(ps, Tail(route),
                                URL \o TrimPrefix(ps[IntOf(element.h) + 1], <<"/">>))
                    ELSE [URL |-> URL, err |-> "error"]
               [] OTHER -> [URL |-> URL, err |-> "error"]

routeBuild(ps, route, URL) ==
    IF route = <<>> THEN [URL |-> URL, err |-> "nil"]
    ELSE LET element == Head(route)
         IN  CASE element.t = "string" ->
                    routeBuild(ps, Tail(route), URL \o TrimPrefix(element.s, <<"/">>))
               [] element.t = "float64" ->
                    IF Len(ps) > IntOf(element.h)
                    THEN IF IntOf(element.h) < 0
                         THEN [URL |-> URL, err |-> "panic"]
                         ELSE routeBuild(ps, Tail(route),
                                URL \o PathEscape(TrimPrefix(ps[IntOf(element.h) + 1], <<"/">>)))
                    ELSE [URL |-> URL, err |-> "error"]
               [] OTHER -> [URL |-> URL, err |-> "error"]

routeBuilder(ps, route) == routeBuild(ps, route, <<>>)

\* requestHeaderValue: the values of one header joined with ","
RECURSIVE JoinFrom(_, _, _)
JoinFrom(values, i, acc) ==
    IF i > Len(values) THEN acc
    ELSE JoinFrom(values, i + 1, acc \o <<",">> \o values[i])

CommaJoin(values) == JoinFrom(values, 2, values[1])

\* http.Header.Add
HeaderAdd(h, key, value) ==
    IF key \in DOMAIN h
    THEN [h EXCEPT ![key] = Append(@, value)]
    ELSE [x \in (DOMAIN h) \cup {key} |-> IF x = key THEN <<value>> ELSE h[x]]

\* Set that keeps the values already under the key
HeaderSet_Append(h, key, value) ==
    HeaderAdd(h, key, value)

\* http.Header.Set
HeaderSet(h, key, value) ==
    [x \in (DOMAIN h) \cup {key} |-> IF x = key THEN <<value>> ELSE h[x]]

\* for key, values := range src { dst.Add(key, join(values)) }
RECURSIVE CopyHeaders(_, _, _)
CopyHeaders(src, keys, dst) ==
    IF keys = {} THEN dst
    ELSE LET key == CHOOSE k \in keys : TRUE
         IN  CopyHeaders(src, keys \ {key}, HeaderAdd(dst, key, CommaJoin(src[key])))

\* the response writer of net/http: the first WriteHeader fixes the status,
\* a later one is dropped; Write sends the header with 200 if none was
\* written; up tells whether the connection to the client takes the bytes
NewWriter == [status |-> 0, header |-> <<>>, body |-> <<>>]

WriteHeader(w, status) == IF w.status = 0 THEN [w EXCEPT !.status = status] ELSE w

Write(w, bytes, up) ==
    [w |-> IF up THEN [WriteHeader(w, 200) EXCEPT !.body = @ \o bytes]
                 ELSE WriteHeader(w, 200),
     err |-> ~up]

\* writeErrorResponse without the body
writeErrorResponse_StatusOnly(w, status, up) ==
    Write(WriteHeader(w, status), <<>>, up).w

\* writeErrorResponse; the handler drops its error
writeErrorResponse(w, status, up) ==
    Write(WriteHeader(w, status), <<"Request Failed">>, up).w

\* writeResponse: the error of ioutil.ReadAll is dropped, what was read
\* before it is written; closed counts its resp.Body.Close()
writeResponse(w, resp, up) ==
    [closed |-> 1] @@
    Write(WriteHeader([w EXCEPT !.header = CopyHeaders(resp.Header, DOMAIN resp.Header, @)],
                      resp.StatusCode),
          IF resp.readOK THEN resp.Body ELSE <<>>,
          up)

\* the routes file: the host h with one MethodPathMap per kind of template
\* and the host [::1]; params is the number of parameters of Path, which is
\* the number of bindings httprouter hands over on a match
HostV6 == <<"[", ":", ":", "1", "]">>

RouteMap ==
    << [Host |-> HostH,
        MethodPathMaps |-> <<
          [Method |-> "GET", Path |-> "/wild/:a/*b", params |-> 2,
           Route |-> <<Str(<<"https://", "www.">>), Num(0), Str(<<"/", ".com", "/">>), Num(2)>>],
          [Method |-> "GET", Path |-> "/one/*a", params |-> 1,
           Route |-> <<Str(<<"https://", "b", "/">>), Num(0)>>],
          [Method |-> "GET", Path |-> "/far/:a", params |-> 1,
           Route |-> <<Str(<<"https://", "b", "/">>), Num(2)>>],
          [Method |-> "GET", Path |-> "/odd/:a", params |-> 1,
           Route |-> <<Str(<<"https://", "b", "/">>), Other>>],
          [Method |-> "GET", Path |-> "/neg/:a", params |-> 1,
           Route |-> <<Str(<<"https://", "b", "/">>), Num(-2), Num(10)>>],
          [Method |-> "GET", Path |-> "/half/:a", params |-> 1,
           Route |-> <<Str(<<"https://", "b", "/">>), Num(1)>>],
          [Method |-> "GET", Path |-> "/empty", params |-> 0,
           Route |-> <<>>],
          [Method |-> "GET", Path |-> "/esc", params |-> 0,
           Route |-> <<Str(<<"https://", "b", "/", "%zz">>)>>],
          [Method |-> "GET", Path |-> "/rel", params |-> 0,
           Route |-> <<Str(<<"b", "/", "x">>)>>] >>],
       [Host |-> HostV6,
        MethodPathMaps |-> <<
          [Method |-> "GET", Path |-> "/", params |-> 0,
           Route |-> <<Str(<<"https://", "b", "/">>)>>] >>] >>

\* assignRoutes: (*pHMap)[hostMap.Host] = router, one router per HostMap
PHMap ==
    [name \in {RouteMap[i].Host : i \in 1..Len(RouteMap)} |->
        (CHOOSE hostMap \in {RouteMap[i] : i \in 1..Len(RouteMap)} :
            hostMap.Host = name).MethodPathMaps]

\* the values a path parameter can take
ParamValues == { <<"foo">>, <<"/", "bar", "/", "baz">>, <<"/", "/", "a", " ", "b">> }

\* the Host header values: a name, a name with a port, an IPv6 literal with
\* and without a port, a name no HostMap has
Hosts == { HostH, HostH \o <<":", "8443">>, HostG, HostV6, HostV6 \o <<":", "443">> }

InHeaders ==
    { ("Silly" :> << <<"first value">>, <<"second value">> >>),
      ("Silly" :> << <<"first value">>, <<"second value">> >>)
          @@ ("X-Forwarded-By" :> << <<"Evil">> >>),
      ("Accept" :> << <<"*/*">> >>)
          @@ ("X-Forwarded-By" :> << <<"a">>, <<"b">> >>) }

Requests == [Host : Hosts, RawQuery : {<<>>, <<"q=1">>}, Header : InHeaders]

RespHeaders ==
    { ("Location" :> << <<"/", "x">> >>),
      ("Location" :> << <<"/", "x">> >>)
          @@ ("Set-Cookie" :> << <<"a=1">>, <<"b=2">> >>) }

\* what the backend answers; readOK tells whether its body can be read
Responses ==
    [StatusCode : {200, 301}, Header : RespHeaders, Body : {<<"payload">>},
     readOK : BOOLEAN]

\* the backend cannot be reached, or it answers
Backends == {[kind |-> "error"]} \cup [kind : {"resp"}, resp : Responses]

\* url.Parse inside http.NewRequest: an invalid percent-escape is refused
UrlParses(url) == \A i \in 1..Len(url) : url[i] # "%zz"

\* the transport takes http and https URLs only
HasScheme(url) == url # <<>> /\ url[1] \in {"http://", "https://"}

\* what the client gets after a redirect it has followed
RedirectTarget ==
    [StatusCode |-> 200, Header |-> ("Content-Type" :> << <<"text/html">> >>),
     Body |-> <<"target">>, readOK |-> TRUE]

\* the redirect policy net/http has when CheckRedirect is left nil
CheckRedirect_Follow == "follow"

\* client.CheckRedirect: return http.ErrUseLastResponse
CheckRedirect == "ErrUseLastResponse"

\* client.Do: sent lists the requests that went out
clientDo(req, backend) ==
    IF ~HasScheme(req.URL)
    THEN [err |-> TRUE, sent |-> <<>>, resp |-> RedirectTarget]
    ELSE IF backend.kind = "error"
    THEN [err |-> TRUE, sent |-> <<req>>, resp |-> RedirectTarget]
    ELSE IF CheckRedirect = "follow" /\ backend.resp.StatusCode = 301
    THEN [err |-> FALSE,
          sent |-> <<req, [req EXCEPT !.URL = backend.resp.Header["Location"][1]]>>,
          resp |-> RedirectTarget]
    ELSE [err |-> FALSE, sent |-> <<req>>, resp |-> backend.resp]

\* what one request ends in: the response writer, the requests sent to
\* backends, the URL given to http.NewRequest, whether the handler
\* panicked, and how often a response body was closed
Outcome(w, outbound, route, panicked) ==
    [w |-> w, outbound |-> outbound, route |-> route, panicked |-> panicked,
     closed |-> 0]

\* for ... range r.Header { req.Header.Add(...) }; req.Header.Set(...)
OutHeader(r) ==
    HeaderSet(CopyHeaders(r.Header, DOMAIN r.Header, <<>>),
              "X-Forwarded-By", <<"SillyProxy">>)

\* the handler closing resp.Body before it looks at respErr
handler_CloseFirst(localMap, r, ps, backend, up) ==
    LET b == routeBuilder(ps, localMap.Route)
        route == IF r.RawQuery # <<>> THEN b.URL \o <<"?">> \o r.RawQuery ELSE b.URL
        req == [Method |-> localMap.Method, URL |-> route, Header |-> OutHeader(r)]
        d == clientDo(req, backend)
        wr == writeResponse(NewWriter, d.resp, up)
    IN  IF b.err = "panic"
        THEN Outcome(NewWriter, <<>>, <<>>, TRUE)
        ELSE IF b.err # "nil"
        THEN Outcome(writeErrorResponse(NewWriter, 400, up), <<>>, <<>>, FALSE)
        ELSE IF route = <<>> \/ ~UrlParses(route)
        THEN Outcome(writeErrorResponse(NewWriter, 400, up), <<>>, route, FALSE)
        ELSE IF d.err
        THEN [Outcome(writeErrorResponse(NewWriter, 400, up), d.sent, route, FALSE)
                 EXCEPT !.closed = 1]
        ELSE IF wr.err
        THEN [Outcome(writeErrorResponse(wr.w, 500, up), d.sent, route, FALSE)
                 EXCEPT !.closed = wr.closed + 1]
        ELSE [Outcome(wr.w, d.sent, route, FALSE) EXCEPT !.closed = wr.closed + 1]

\* the closure assignRoutes registers for localMap
handler(localMap, r, ps, backend, up) ==
    LET b == routeBuilder(ps, localMap.Route)
        route == IF r.RawQuery # <<>> THEN b.URL \o <<"?">> \o r.RawQuery ELSE b.URL
        req == [Method |-> localMap.Method, URL |-> route, Header |-> OutHeader(r)]
        d == clientDo(req, backend)
        wr == writeResponse(NewWriter, d.resp, up)
    IN  IF b.err = "panic"
        THEN Outcome(NewWriter, <<>>, <<>>, TRUE)
        ELSE IF b.err # "nil"
        THEN Outcome(writeErrorResponse(NewWriter, 400, up), <<>>, <<>>, FALSE)
        ELSE IF route = <<>> \/ ~UrlParses(route)
        THEN Outcome(writeErrorResponse(NewWriter, 400, up), <<>>, route, FALSE)
        ELSE IF d.err
        THEN Outcome(writeErrorResponse(NewWriter, 400, up), d.sent, route, FALSE)
        ELSE IF wr.err
        THEN [Outcome(writeErrorResponse(wr.w, 500, up), d.sent, route, FALSE)
                 EXCEPT !.closed = wr.closed + 1]
        ELSE [Outcome(wr.w, d.sent, route, FALSE) EXCEPT !.closed = wr.closed + 1]

\* http.Error(w, "Request Forbidden, ...", 403)
Forbidden(r, up) ==
    Write(WriteHeader(NewWriter, 403),
          <<"Request Forbidden, this request for hostname: ">> \o r.Host
             \o <<" is in error. Please check your input">>,
          up).w

\* httprouter's answer when no route of the host matches
NotFound(up) == Write(WriteHeader(NewWriter, 404), <<"404 page not found">>, up).w

\* proxyHanlderMap.ServeHTTP with all it calls; k is the route of the host
\* that httprouter matches (0: none) and ps the bindings it extracts
ServeHTTPOutcome(r, k, ps, backend, up) ==
    IF SplitFirst(r.Host) \in DOMAIN PHMap
    THEN IF k = 0
         THEN Outcome(NotFound(up), <<>>, <<>>, FALSE)
         ELSE handler(PHMap[SplitFirst(r.Host)][k], r, ps, backend, up)
    ELSE Outcome(Forbidden(r, up), <<>>, <<>>, FALSE)

\* the routes httprouter can match for the request, and their bindings
Matches(r) ==
    IF SplitFirst(r.Host) \in DOMAIN PHMap
    THEN 0..Len(PHMap[SplitFirst(r.Host)])
    ELSE {0}

Bindings(r, k) ==
    IF k = 0 THEN {<<>>}
    ELSE [1..PHMap[SplitFirst(r.Host)][k].params -> ParamValues]

\* one request served from the first to the last statement of the handler
ServeHTTP ==
    /\ phase = "serving"
    /\ http.pc = "idle"
    /\ \E r \in Requests, backend \in Backends, up \in BOOLEAN :
         \E k \in Matches(r) :
           \E ps \in Bindings(r, k) :
             http' = [pc |-> "done", r |-> r, k |-> k, ps |-> ps,
                      backend |-> backend, up |-> up,
                      out |-> ServeHTTPOutcome(r, k, ps, backend, up)]
    /\ UNCHANGED <<archive, storeVars, phase, loadErr, rl, hs, password, sig, toolVars>>

\* the connection is ready for the next request
ServeEnd ==
    /\ http.pc = "done"
    /\ http' = HttpIdle
    /\ UNCHANGED <<archive, storeVars, phase, loadErr, rl, hs, password, sig, toolVars>>

ProxyArchive ==
    [readable |-> TRUE,
     entries |-> MapPut(<<>>, Default \o SfxRSA, [kind |-> "key", ver |-> 1])]

InitProxy == InitWith({ProxyArchive})

NextProxy ==
    \/ Startup
    \/ ServeHTTP
    \/ ServeEnd

SpecProxy == InitProxy /\ [][NextProxy]_vars

(***************************************************************************)
(* SillyProxy from its first statement to its return: buildRouteMap,       *)
(* assignRoutes, the minTLSVer switch, the first loadCertMap, the          *)
(* refresher goroutine and the server (sillyProxy.go, phmap.go,            *)
(* assignroutes.go).  Tests call it several times in one process, so the   *)
(* package variables carry over from one call to the next.                 *)
(***************************************************************************)
\* calls of SillyProxy in one process
MaxCalls == 2
\* the values of the minTLSVer flag are 0..MaxTLSVer
MaxTLSVer == 5

\* a MethodPathMap and a HostMap of the routes document
MethodPathMap(method, path, route) == [Method |-> method, Path |-> path, Route |-> route]

HostMap(host, maps) == [Host |-> host, MethodPathMaps |-> maps]

\* a template that sends the request to the backend called name
To(name) == <<Str(<<"https://", name>>)>>

\* the routes file cannot be opened, or is not the JSON of a RouteMap
NoRouteFile == [opens |-> FALSE, decodes |-> FALSE, Routes |-> <<>>]

BadJSON == [opens |-> TRUE, decodes |-> FALSE, Routes |-> <<>>]

RoutesDoc(routes) == [opens |-> TRUE, decodes |-> TRUE, Routes |-> routes]

\* two hosts, one route each
RoutesPlain ==
    RoutesDoc(<< HostMap(HostH, <<MethodPathMap("GET", "/a", To("one"))>>),
                 HostMap(HostG, <<MethodPathMap("GET", "/a", To("two"))>>) >>)

\* the host h in two HostMaps, another host between them
RoutesTwice ==
    RoutesDoc(<< HostMap(HostH, << MethodPathMap("GET", "/old", To("first")),
                                   MethodPathMap("GET", "/a", To("first")),
                                   MethodPathMap("GET", "/m", To("first")) >>),
                 HostMap(HostG, <<MethodPathMap("GET", "/a", To("two"))>>),
                 HostMap(HostH, << MethodPathMap("GET", "/a", To("last")),
                                   MethodPathMap("POST", "/m", To("last")) >>) >>)

RoutesNoHost ==
    RoutesDoc(<< HostMap(<<>>, <<MethodPathMap("GET", "/a", To("one"))>>) >>)

RoutesNoMethod ==
    RoutesDoc(<< HostMap(HostH, <<MethodPathMap("", "/a", To("one"))>>) >>)

RoutesNoPath ==
    RoutesDoc(<< HostMap(HostH, <<MethodPathMap("GET", "", To("one"))>>) >>)

RoutesNegative ==
    RoutesDoc(<< HostMap(HostH, <<MethodPathMap("GET", "/a", To("one") \o <<Num(-2)>>)>>) >>)

RoutesOther ==
    RoutesDoc(<< HostMap(HostH, <<MethodPathMap("GET", "/a", <<Other>>)>>) >>)

RouteFiles ==
    { NoRouteFile, BadJSON, RoutesPlain, RoutesTwice, RoutesNoHost,
      RoutesNoMethod, RoutesNoPath, RoutesNegative, RoutesOther }

\* buildRouteMap: os.Open, then json Decode into the RouteMap; nothing
\* else is looked at
buildRouteMap(file) ==
    IF ~file.opens
    THEN [Routes |-> <<>>, err |-> "open"]
    ELSE IF ~file.decodes
    THEN [Routes |-> <<>>, err |-> "decode"]
    ELSE [Routes |-> file.Routes, err |-> "nil"]

\* router.Handle panics on a path that does not begin with "/" and on a
\* (method, path) that is registered already; strict tells whether the
\* httprouter release of the build also panics on an empty method
HandlePanics(maps, strict) ==
    \E i \in 1..Len(maps) :
        \/ maps[i].Path = ""
        \/ strict /\ maps[i].Method = ""
        \/ \E j \in 1..(i - 1) :
              maps[j].Method = maps[i].Method /\ maps[j].Path = maps[i].Path

\* a router that is registered for the host is kept
Register_KeepFirst(pHMap, hostMap) ==
    IF hostMap.Host \in DOMAIN pHMap
    THEN pHMap
    ELSE MapPut(pHMap, hostMap.Host, hostMap.MethodPathMaps)

\* (*pHMap)[hostMap.Host] = router
Register(pHMap, hostMap) ==
    MapPut(pHMap, hostMap.Host, hostMap.MethodPathMaps)

\* assignRoutes: for _, hostMap := range (*routeMap).Routes
RECURSIVE assignRoutes(_, _, _)
assignRoutes(pHMap, Routes, strict) ==
    IF Routes = <<>>
    THEN [pHMap |-> pHMap, panic |-> FALSE]
    ELSE IF HandlePanics(Head(Routes).MethodPathMaps, strict)
    THEN [pHMap |-> pHMap, panic |-> TRUE]
    ELSE assignRoutes(Register(pHMap, Head(Routes)), Tail(Routes), strict)

\* the switch without its default case
MinVersionSwitch_NoDefault(minTLSVer, current) ==
    CASE minTLSVer = 2 -> VersionTLS11
      [] minTLSVer = 3 -> VersionTLS12
      [] OTHER -> current

\* switch *minTLSVer: what minVersionTLS is set to, current being its value
\* before
MinVersionSwitch(minTLSVer, current) ==
    CASE minTLSVer = 2 -> VersionTLS11
      [] minTLSVer = 3 -> VersionTLS12
      [] OTHER -> VersionTLS10

\* the refresher goroutine started before loadError is looked at
AfterLoad_StartFirst(loadError, server) ==
    IF loadError # "nil"
    THEN [server |-> NoServer, err |-> "load", started |-> TRUE]
    ELSE [server |-> server, err |-> "nil", started |-> TRUE]

\* from if loadError != nil to return server, nil: whether the refresher
\* goroutine is started, and what is returned
AfterLoad(loadError, server) ==
    IF loadError # "nil"
    THEN [server |-> NoServer, err |-> "load", started |-> FALSE]
    ELSE [server |-> server, err |-> "nil", started |-> TRUE]

\* the keystores SillyProxy is pointed at: none, one without a default
\* alias, a good one, and one whose second entry cannot be fetched
BootArchives ==
    { Unreadable,
      [readable |-> TRUE,
       entries |-> MapPut(<<>>, HostH \o SfxRSA, [kind |-> "key", ver |-> 1])],
      ProxyArchive,
      [readable |-> TRUE,
       entries |-> MapPut(MapPut(<<>>, Default \o SfxECDSA, [kind |-> "key", ver |-> 1]),
                          HostH \o SfxRSA, [kind |-> "locked", ver |-> 1])] }

InitBoot == InitWith(BootArchives)

\* one call of SillyProxy with its arguments: the routes file, the flag
\* value, the keystore file
SillyProxy ==
    /\ phase # "crashed"
    /\ http.pc = "idle"
    /\ call.n < MaxCalls
    /\ \E routeFile \in RouteFiles, minTLSVer \in 0..MaxTLSVer,
          file \in BootArchives, strict \in BOOLEAN :
         LET b == buildRouteMap(routeFile)
             a == assignRoutes(<<>>, b.Routes, strict)
             v == MinVersionSwitch(minTLSVer, minVersionTLS)
             this == [n |-> call.n + 1, minTLSVer |-> minTLSVer,
                      before |-> minVersionTLS, routeFile |-> routeFile]
         IN  IF b.err # "nil"
             THEN /\ call' = this @@ [server |-> NoServer, err |-> "routemap",
                                      loadError |-> "none",
                                      refreshers |-> call.refreshers]
                  /\ UNCHANGED <<archive, storeVars, phase, loadErr, password,
                                 minVersionTLS>>
             ELSE IF a.panic
             THEN /\ call' = this @@ [server |-> NoServer, err |-> "panic",
                                      loadError |-> "none",
                                      refreshers |-> call.refreshers]
                  /\ phase' = "crashed"
                  /\ UNCHANGED <<archive, storeVars, loadErr, password, minVersionTLS>>
             ELSE \E aliases \in AliasOrders(file) :
                    LET r == loadCertMap([Store EXCEPT !.certMap = <<>>], file, aliases)
                        e == AfterLoad(r.err,
                                       [MinVersion |-> v, Handler |-> a.pHMap,
                                        nil |-> FALSE])
                    IN  /\ archive' = file
                        /\ minVersionTLS' = v
                        /\ password' = "secret"
                        /\ SetStore(r.store)
                        /\ loadErr' = r.err
                        /\ phase' = IF e.err = "nil" THEN "serving" ELSE "failed"
                        /\ call' = this @@ [server |-> e.server, err |-> e.err,
                                            loadError |-> r.err,
                                            refreshers |-> call.refreshers
                                                + (IF e.started THEN 1 ELSE 0)]
    /\ UNCHANGED <<rl, hs, sig, http, gen>>

\* a request as the router sees it
BootRequests ==
    [Host : {HostH, HostG, <<>>}, Method : {"GET", "POST"},
     Path : {"/a", "/old", "/m", "/none"}]

\* the router of a host on a request: the route registered for the method
\* and the path handles it; if the path is registered for another method
\* only the answer is 405 (HandleMethodNotAllowed), else 404
RouterServe(maps, r) ==
    IF \E i \in 1..Len(maps) : maps[i].Method = r.Method /\ maps[i].Path = r.Path
    THEN [code |-> 0,
          by |-> maps[CHOOSE i \in 1..Len(maps) :
                         maps[i].Method = r.Method /\ maps[i].Path = r.Path]]
    ELSE IF \E i \in 1..Len(maps) : maps[i].Path = r.Path
    THEN [code |-> 405, by |-> <<>>]
    ELSE [code |-> 404, by |-> <<>>]

\* proxyHanlderMap.ServeHTTP on the map the server was given; code 0: the
\* handler of MethodPathMap by answers
ServeWith(pHMap, r) ==
    IF SplitFirst(r.Host) \in DOMAIN pHMap
    THEN RouterServe(pHMap[SplitFirst(r.Host)], r)
    ELSE [code |-> 403, by |-> <<>>]

\* the server SillyProxy returned serves a request
BootServe ==
    /\ phase = "serving"
    /\ ~call.server.nil
    /\ http.pc = "idle"
    /\ \E r \in BootRequests :
         http' = [pc |-> "done", r |-> r, out |-> ServeWith(call.server.Handler, r)]
    /\ UNCHANGED <<archive, storeVars, phase, loadErr, rl, hs, password, sig, toolVars>>

NextBoot ==
    \/ SillyProxy
    \/ BootServe
    \/ ServeEnd

SpecBoot == InitBoot /\ [][NextBoot]_vars

(***************************************************************************)
(* The keystore tool: GenerateKeyStore (utility/keyStore.go) on the        *)
(* keystore file, with the answers the user types at its prompts.          *)
(***************************************************************************)
\* the aliases the tool's keystore can hold
GenAliases ==
    { Default \o SfxRSA, Default \o SfxECDSA, HostH \o SfxRSA, HostH \o SfxECDSA }

GenArchives == {Unreadable} \cup KeyStores(GenAliases, 1..MaxVer, 0)

\* the lines the user can type at a prompt; the empty one is end of input
Answers == { <<"y">>, <<"Y">>, <<"n">>, <<>> }

\* the prompt is answered with yes whatever is typed
Affirmative_Always(choice) == TRUE

\* choice[0] == 89 || choice[0] == 121
Affirmative(choice) == choice[1] \in {"Y", "y"}

\* the arguments and the files they name: the hostname flag; the public-key
\* type of the certificate; pem: the PEM pair loads ("ok"), does not load
\* ("bad"), or loads while the key file cannot be read again ("gone"); ver:
\* the certificate generation of the pair; flags: all given ("ok"), a
\* required one empty ("missing"), the password empty ("blankpass");
\* present: whether an unreadable keystore file exists (malformed, wrong
\* password) or not; write: os.Create fails ("create"), keystore.Encode
\* fails after it ("encode"), or the file is written ("ok")
GenArgs ==
    [hostname : {<<>>, Default, HostH}, keyType : {"RSA", "ECDSA", "other"},
     pem : {"ok", "bad", "gone"}, ver : 1..MaxVer,
     flags : {"ok", "missing", "blankpass"}, present : BOOLEAN,
     write : {"ok", "create", "encode"}]

SfxOf(certType) == IF certType = "RSA" THEN SfxRSA ELSE SfxECDSA

\* no entry
NoEntry == [kind |-> "none", ver |-> 0]

EntryAt(file, alias) ==
    IF file.readable /\ alias \in DOMAIN file.entries
    THEN file.entries[alias] ELSE NoEntry

\* how a run of the tool ends: the prompts asked with their answers, the
\* alias hostname:certType, the alias the entry was stored under, the
\* error returned and the keystore file it leaves
Run(args, asked, target, alias, err, file) ==
    [args |-> args, asked |-> asked, target |-> target, alias |-> alias,
     err |-> err, file |-> file]

\* a prompt and the answer typed
Asked(asked, prompt, choice) == Append(asked, [prompt |-> prompt, choice |-> choice])

\* populateKeyStore and writeKeystore, to the return
Populate(args, asked, target, alias, ks, file) ==
    IF args.pem = "gone"
    THEN Run(args, asked, target, alias, "populate", file)
    ELSE IF args.write = "create"
    THEN Run(args, asked, target, alias, "write", file)
    ELSE IF args.write = "encode"
    THEN Run(args, asked, target, alias, "write", Unreadable)
    ELSE Run(args, asked, target, alias, "nil",
             [readable |-> TRUE,
              entries |-> MapPut(ks, alias, [kind |-> "key", ver |-> args.ver])])

\* the prompt to import under the default alias, then the rest
DefaultPrompt(args, asked, target, ks, file) ==
    { IF choice = <<>>
      THEN Run(args, asked, target, <<>>, "panic", file)
      ELSE Populate(args, Asked(asked, "default", choice), target,
                    IF Affirmative(choice) THEN Default \o SfxOf(args.keyType)
                    ELSE target,
                    ks, file) :
      choice \in Answers }

\* from the check whether the keystore location exists
Existing(args, asked, hostname, file) ==
    LET target == hostname \o SfxOf(args.keyType)
        ks == file.entries
        rest == IF hostname # Default
                     /\ (Default \o SfxRSA) \notin DOMAIN ks
                     /\ (Default \o SfxECDSA) \notin DOMAIN ks
                THEN DefaultPrompt(args, asked, target, ks, file)
                ELSE {Populate(args, asked, target, target, ks, file)}
    IN  IF ~file.readable /\ args.present
        THEN {Run(args, asked, target, <<>>, "fatal", file)}
        ELSE IF file.readable
        THEN IF target \in DOMAIN ks
             THEN UNION
                  { IF choice = <<>>
                    THEN {Run(args, asked, target, <<>>, "panic", file)}
                    ELSE IF ~Affirmative(choice)
                    THEN {Run(args, Asked(asked, "overwrite", choice), target, <<>>,
                              "declined", file)}
                    ELSE IF hostname # Default
                              /\ (Default \o SfxRSA) \notin DOMAIN ks
                              /\ (Default \o SfxECDSA) \notin DOMAIN ks
                    THEN DefaultPrompt(args, Asked(asked, "overwrite", choice),
                                       target, ks, file)
                    ELSE {Populate(args, Asked(asked, "overwrite", choice),
                                   target, target, ks, file)} :
                    choice \in Answers }
             ELSE rest
        ELSE IF hostname # Default
        THEN DefaultPrompt(args, asked, target, <<>>, file)
        ELSE {Populate(args, asked, target, target, <<>>, file)}

\* from tls.LoadX509KeyPair to the switch on the public key
Pem(args, asked, hostname, file) ==
    IF args.pem = "bad"
    THEN {Run(args, asked, <<>>, <<>>, "pem", file)}
    ELSE IF args.keyType = "other"
    THEN {Run(args, asked, <<>>, <<>>, "fatal", file)}
    ELSE Existing(args, asked, hostname, file)

\* the prompt for an empty hostname
HostPrompt(args, asked, file) ==
    IF args.hostname # <<>>
    THEN Pem(args, asked, args.hostname, file)
    ELSE UNION
         { IF choice = <<>>
           THEN {Run(args, asked, <<>>, <<>>, "panic", file)}
           ELSE IF ~Affirmative(choice)
           THEN {Run(args, Asked(asked, "hostname", choice), <<>>, <<>>, "aborted", file)}
           ELSE Pem(args, Asked(asked, "hostname", choice), Default, file) :
           choice \in Answers }

\* GenerateKeyStore: the runs it can take on the arguments and the file
GenerateKeyStoreRuns(args, file) ==
    IF args.flags = "missing"
    THEN {Run(args, <<>>, <<>>, <<>>, "flag", file)}
    ELSE IF args.flags = "blankpass"
    THEN UNION
         { IF choice = <<>>
           THEN {Run(args, <<>>, <<>>, <<>>, "panic", file)}
           ELSE IF ~Affirmative(choice)
           THEN {Run(args, Asked(<<>>, "blankpass", choice), <<>>, <<>>, "aborted", file)}
           ELSE HostPrompt(args, Asked(<<>>, "blankpass", choice), file) :
           choice \in Answers }
    ELSE HostPrompt(args, <<>>, file)

InitKeyGen == InitWith(GenArchives)

\* one run of the tool; old is the entry the file had under hostname:certType
GenerateKeyStore ==
    /\ gen.pc = "idle"
    /\ \E args \in GenArgs :
         \E run \in GenerateKeyStoreRuns(args, archive) :
            /\ gen' = [pc |-> "done", args |-> run.args, asked |-> run.asked,
                       target |-> run.target, alias |-> run.alias, err |-> run.err,
                       old |-> EntryAt(archive, run.target)]
            /\ archive' = run.file
    /\ UNCHANGED <<storeVars, phase, loadErr, rl, hs, password, sig, http,
                   minVersionTLS, call>>

\* the tool has exited
GenEnd ==
    /\ gen.pc = "done"
    /\ gen' = GenIdle
    /\ UNCHANGED <<archive, storeVars, phase, loadErr, rl, hs, password, sig, http,
                   minVersionTLS, call>>

NextKeyGen ==
    \/ GenerateKeyStore
    \/ GenEnd

SpecKeyGen == InitKeyGen /\ [][NextKeyGen]_vars

(***************************************************************************)
(* Vocabulary of the properties                                            *)
(***************************************************************************)
Range(seq) == {seq[i] : i \in 1..Len(seq)}

\* the offered suites intersect a table
Intersects(cipherSuites, table) == Range(cipherSuites) \cap Range(table) # {}

ECDSAPopulated == ECDSAdefaultExists /\ ECDSAdefault # ZeroCert

RSAPopulated == RSAdefaultExists /\ RSAdefault # ZeroCert

\* a step that is one call of loadCertMap (no such step rewrites the file)
LoadCall == archive' = archive /\ (Startup \/ Tick)

\* a step that is one iteration of the refresher
Reload == archive' = archive /\ Tick

(***************************************************************************)
(* C1: whatever the ClientHello and the store, returnCert hands out a      *)
(* certificate of an ECDSA entry or slot only if the offered suites        *)
(* intersect the ECDSA table, and of an RSA entry or slot only if they     *)
(* intersect the RSA table; otherwise it returns the error.                *)
(***************************************************************************)
C1_Compatible(helloInfo, ret) ==
    /\ ret.src \in {"hostECDSA", "ECDSAdefault"}
           => Intersects(helloInfo.CipherSuites, CiphersECDSA)
    /\ ret.src \in {"hostRSA", "RSAdefault"}
           => Intersects(helloInfo.CipherSuites, CiphersRSA)
    /\ ret.src \in {"hostECDSA", "ECDSAdefault", "hostRSA", "RSAdefault", "error"}

C1_SuitesMatchAlgorithm ==
    /\ \A helloInfo \in Hellos : C1_Compatible(helloInfo, returnCert(helloInfo, Store))
    /\ hs.pc = "done" => C1_Compatible(hs.hello, hs.ret)

C1_Witness ==
    /\ hs.pc = "done"
    /\ hs.ret.src = "RSAdefault"
    /\ hs.hello.CipherSuites = <<156>>
    /\ ECDSAPopulated

(***************************************************************************)
(* C2: ECDSA is favoured. If certMap holds both <host>:ECDSA and           *)
(* <host>:RSA for the hello's name and the suites intersect the ECDSA      *)
(* table, the host's ECDSA entry is returned; and when no host entry is    *)
(* returned while both default slots are populated and both algorithms     *)
(* are supported, it is defaultECDSA that is returned.                     *)
(***************************************************************************)
C2_Favoured(helloInfo, ret) ==
    LET aE == AliasOf(helloInfo) \o SfxECDSA
        aR == AliasOf(helloInfo) \o SfxRSA
        supE == Intersects(helloInfo.CipherSuites, CiphersECDSA)
        supR == Intersects(helloInfo.CipherSuites, CiphersRSA)
    IN  /\ (aE \in DOMAIN certMap /\ aR \in DOMAIN certMap /\ supE)
               => ret = [src |-> "hostECDSA", cert |-> certMap[aE]]
        /\ (ECDSAPopulated /\ RSAPopulated /\ supE /\ supR
              /\ ret.src \notin {"hostECDSA", "hostRSA"})
               => ret = [src |-> "ECDSAdefault", cert |-> ECDSAdefault]

C2_EcdsaFavoured ==
    /\ \A helloInfo \in Hellos : C2_Favoured(helloInfo, returnCert(helloInfo, Store))
    /\ hs.pc = "done" => C2_Favoured(hs.hello, hs.ret)

C2_Witness ==
    /\ hs.pc = "done"
    /\ hs.hello = [ServerName |-> HostH, CipherSuites |-> <<49195, 156>>]
    /\ (HostH \o SfxECDSA) \in DOMAIN certMap
    /\ (HostH \o SfxRSA) \in DOMAIN certMap
    /\ hs.ret.src = "hostECDSA"

(***************************************************************************)
(* C3: with an empty ServerName, or a name certMap has no entry for, the   *)
(* result is defaultECDSA if that slot is populated and the suites         *)
(* intersect the ECDSA table, else defaultRSA if populated and the suites  *)
(* intersect the RSA table, else the error; never another host's entry.    *)
(***************************************************************************)
C3_DefaultServed(helloInfo, ret) ==
    LET aE == helloInfo.ServerName \o SfxECDSA
        aR == helloInfo.ServerName \o SfxRSA
        supE == Intersects(helloInfo.CipherSuites, CiphersECDSA)
        supR == Intersects(helloInfo.CipherSuites, CiphersRSA)
    IN  (helloInfo.ServerName = <<>> \/ (aE \notin DOMAIN certMap /\ aR \notin DOMAIN certMap))
            => ret = IF ECDSAPopulated /\ supE
                     THEN [src |-> "ECDSAdefault", cert |-> ECDSAdefault]
                     ELSE IF RSAPopulated /\ supR
                     THEN [src |-> "RSAdefault", cert |-> RSAdefault]
                     ELSE NoCert

C3_FallsBackToDefault ==
    /\ \A helloInfo \in Hellos : C3_DefaultServed(helloInfo, returnCert(helloInfo, Store))
    /\ hs.pc = "done" => C3_DefaultServed(hs.hello, hs.ret)

C3_Witness ==
    /\ hs.pc = "done"
    /\ hs.hello.ServerName = HostG
    /\ DOMAIN certMap # {}
    /\ hs.ret.src = "ECDSAdefault"

(***************************************************************************)
(* C4: a loadCertMap call on an archive holding neither default:ECDSA nor  *)
(* default:RSA reports failure and leaves certMap, both default slots and  *)
(* both flags as they were.                                                *)
(***************************************************************************)
C4_NoDefaultFails ==
    [][ (/\ LoadCall
         /\ (Default \o SfxECDSA) \notin DOMAIN archive.entries
         /\ (Default \o SfxRSA) \notin DOMAIN archive.entries)
            => (loadErr' # "nil" /\ UNCHANGED storeVars) ]_vars

(***************************************************************************)
(* C5: after every loadCertMap call that returned success, at least one    *)
(* default slot is populated.                                              *)
(***************************************************************************)
C5_SomeDefaultPopulated ==
    loadErr = "nil" => (ECDSAPopulated \/ RSAPopulated)

(***************************************************************************)
(* C6: a loadCertMap call that returns an error leaves certMap and both    *)
(* default slots exactly as they were, and the refresher stays in service. *)
(***************************************************************************)
C6_AllOrNothing ==
    [][ (LoadCall /\ loadErr' # "nil")
            => (UNCHANGED storeVars /\ (phase = "serving" => phase' = "serving")) ]_vars

(***************************************************************************)
(* C9: after a refresher iteration that succeeds against a valid archive   *)
(* (every entry a well-formed private-key entry under an alias             *)
(* <host>:ECDSA or <host>:RSA), the aliases whose certificates the store   *)
(* serves are exactly the aliases of the archive.                          *)
(***************************************************************************)
\* the archive aliases whose certificates are held in the store
ServedAliases ==
    {certMap[a].Certificate[1] : a \in DOMAIN certMap}
      \cup (IF ECDSAPopulated THEN {ECDSAdefault.Certificate[1]} ELSE {})
      \cup (IF RSAPopulated THEN {RSAdefault.Certificate[1]} ELSE {})

WellFormed(file) ==
    /\ file.readable
    /\ \A a \in DOMAIN file.entries :
          /\ file.entries[a].kind = "key"
          /\ HasSuffix(a, SfxECDSA) \/ HasSuffix(a, SfxRSA)

C9_StoreReflectsArchive ==
    [][ (Reload /\ loadErr' = "nil" /\ WellFormed(archive))
            => ServedAliases' = DOMAIN archive.entries ]_vars

(***************************************************************************)
(* C7: a certificate selection that runs while the refresher reloads sees  *)
(* one snapshot: between the selector's first read of the store and its    *)
(* last one no step writes certMap, a default slot or a flag.              *)
(***************************************************************************)
C7_NoWriteDuringSelection ==
    [][ hs.pc \in {"lookupRSA", "defaultECDSA", "defaultRSA"}
            => UNCHANGED storeVars ]_vars

(***************************************************************************)
(* C8: the handshake completes against the certificate and key that        *)
(* returnCert handed to it, host entry or default entry alike.             *)
(***************************************************************************)
C8_HandedCertStable ==
    hs.pc = "finished" => hs.used = hs.ret.cert

(***************************************************************************)
(* C10, as stated: when the ticker fires on a valid archive to which a     *)
(* parsable entry h:ALG has been added, then once the reload is over a     *)
(* handshake with SNI h whose suites support ALG is served that entry.     *)
(***************************************************************************)
\* the host-specific aliases of a keystore that hold a parsable entry
HostKeyAliases(file) ==
    {a \in DOMAIN file.entries :
        ~HasPrefix(a, Default) /\ file.entries[a].kind = "key"}

HostOf(alias) == SubSeq(alias, 1, Len(alias) - 1)

TableOf(alias) == IF HasSuffix(alias, SfxECDSA) THEN CiphersECDSA ELSE CiphersRSA

SrcOf(alias) == IF HasSuffix(alias, SfxECDSA) THEN "hostECDSA" ELSE "hostRSA"

Loadable(file) ==
    /\ file.readable
    /\ DefaultAliasExists(file.entries)
    /\ \A a \in DOMAIN file.entries : file.entries[a].kind \notin {"locked", "trusted"}

\* the store holds the archive's entry for alias a
Held(a) == a \in DOMAIN certMap /\ certMap[a] = CertOf(a, archive.entries[a])

\* some parsable host-specific entry of a loadable archive is not held yet
Pending ==
    /\ phase = "serving"
    /\ Loadable(archive)
    /\ \E a \in HostKeyAliases(archive) : ~Held(a)

EcdsaTakesOver(helloInfo, a) ==
    /\ HasSuffix(a, SfxRSA)
    /\ (HostOf(a) \o SfxECDSA) \in DOMAIN certMap
    /\ Intersects(helloInfo.CipherSuites, CiphersECDSA)

C10_ReloadServes ==
    [][ (Reload /\ loadErr' = "nil")
            => \A a \in HostKeyAliases(archive) :
                 /\ Held(a)'
                 /\ \A helloInfo \in Hellos :
                      (helloInfo.ServerName = HostOf(a)
                         /\ Intersects(helloInfo.CipherSuites, TableOf(a))
                         /\ ~EcdsaTakesOver(helloInfo, a)')
                          => returnCert(helloInfo, Store')
                               = [src |-> SrcOf(a), cert |-> CertOf(a, archive.entries[a])]
      ]_vars

StopReturned == sig.pc \notin {"idle", "send"}

RefresherStep == RlOpen \/ RlEntry \/ RlSlotField \/ RlMapAssign \/ RlReturn

\* C11: after stopReloadKeyStore returned the refresher never reloads or
\* writes the store, and no reload runs on zeroised password bytes
C11_StoppedForGood ==
    /\ [](password = "zero" => rl.pc = "returned")
    /\ [][ StopReturned
             => /\ ~RefresherStep
                /\ rl' = rl
                /\ rl.pc = "returned"
                /\ UNCHANGED <<certMap, ECDSAdefaultExists, RSAdefaultExists, loadErr>>
                /\ (ECDSAdefault' # ECDSAdefault \/ RSAdefault' # RSAdefault)
                      => SigClearDefaults ]_vars

C11_Witness ==
    /\ phase = "stopped"
    /\ rl.pc = "returned"
    /\ password = "zero"
    /\ loadErr = "nil"
    /\ certMap # <<>>

(***************************************************************************)
(* C12: at process exit after a termination signal the password bytes are  *)
(* zero, every entry of certMap is the zero certificate and both default   *)
(* slots are the zero certificate.                                         *)
(***************************************************************************)
C12_ZeroisedAtExit ==
    phase = "stopped"
        => /\ password = "zero"
           /\ \A a \in DOMAIN certMap : certMap[a] = ZeroCert
           /\ ECDSAdefault = ZeroCert
           /\ RSAdefault = ZeroCert

(***************************************************************************)
(* Vocabulary of the request path                                          *)
(***************************************************************************)
\* the request has been served
Served == http.pc = "done"

\* the request went to a route handler: its host has a router and a route
\* of it matched
Matched == Served /\ SplitFirst(http.r.Host) \in DOMAIN PHMap /\ http.k > 0

\* the MethodPathMap whose handler served the request
LocalMap == PHMap[SplitFirst(http.r.Host)][http.k]

\* the Host header value without its ":port" suffix
PortStripped(host) ==
    IF Len(host) >= 2 /\ host[Len(host) - 1] = ":" /\ host[Len(host)] \in {"443", "8443"}
    THEN SubSeq(host, 1, Len(host) - 2)
    ELSE host

\* what the client has got of the body that was written
Delivered(bytes) == IF http.up THEN bytes ELSE <<>>

(***************************************************************************)
(* C13: a request gets 403 with the fixed body exactly when no router is   *)
(* registered under its Host value without the port, it is otherwise      *)
(* served by that router, and a request for an unknown host reaches no     *)
(* route handler and sends nothing to a backend.                           *)
(***************************************************************************)
C13_HostDispatch ==
    Served =>
        LET name == PortStripped(http.r.Host)
        IN  /\ (http.out.w.status = 403) <=> (name \notin DOMAIN PHMap)
            /\ name \notin DOMAIN PHMap
                 => /\ http.out = Outcome(Forbidden(http.r, http.up), <<>>, <<>>, FALSE)
                    /\ http.out.outbound = <<>>
            /\ name \in DOMAIN PHMap
                 => http.out \in
                       {Outcome(NotFound(http.up), <<>>, <<>>, FALSE)} \cup
                       {handler(PHMap[name][k], http.r, http.ps, http.backend, http.up) :
                           k \in {http.k} \cap (1..Len(PHMap[name]))}

(***************************************************************************)
(* C14: for a matched request whose template holds only strings and        *)
(* in-range indices the URL is the concatenation of the elements, a        *)
(* string with one leading "/" removed, an index replaced by the binding   *)
(* with one leading "/" removed and then path-escaped, followed by "?"     *)
(* and the raw query exactly when the query is not empty.                  *)
(***************************************************************************)
DropSlash(s) == IF s # <<>> /\ s[1] = "/" THEN Tail(s) ELSE s

InRange(element, ps) ==
    \/ element.t = "string"
    \/ element.t = "float64" /\ element.h % 2 = 0 /\ element.h \div 2 \in 0..(Len(ps) - 1)

RECURSIVE Substituted(_, _)
Substituted(route, ps) ==
    IF route = <<>> THEN <<>>
    ELSE Substituted(SubSeq(route, 1, Len(route) - 1), ps)
           \o (IF route[Len(route)].t = "string"
               THEN DropSlash(route[Len(route)].s)
               ELSE PathEscape(DropSlash(ps[route[Len(route)].h \div 2 + 1])))

WithQuery(url, query) == IF query = <<>> THEN url ELSE url \o <<"?">> \o query

C14_UrlIsSubstitutedTemplate ==
    (Matched /\ \A i \in 1..Len(LocalMap.Route) : InRange(LocalMap.Route[i], http.ps))
        => /\ ~http.out.panicked
           /\ http.out.route = WithQuery(Substituted(LocalMap.Route, http.ps), http.r.RawQuery)
           /\ \A i \in 1..Len(http.out.outbound) :
                 http.out.outbound[i].URL = http.out.route

C14_Witness ==
    /\ Matched
    /\ LocalMap.Path = "/wild/:a/*b"
    /\ http.ps = << <<"foo">>, <<"/", "bar", "/", "baz">> >>
    /\ http.r.RawQuery = <<>>
    /\ Len(http.out.outbound) = 1
    /\ http.out.outbound[1].URL
         = <<"https://", "www.", "foo", ".com", "/", "bar", "%2F", "baz">>

(***************************************************************************)
(* C15: a template with an index at or beyond the number of bindings, or   *)
(* with an element that is neither a string nor a number, gets the client  *)
(* a 400 and no request goes to a backend.                                 *)
(***************************************************************************)
BadTemplate(route, ps) ==
    \E i \in 1..Len(route) :
        \/ route[i].t = "other"
        \/ route[i].t = "float64" /\ IntOf(route[i].h) >= Len(ps)

C15_BadTemplateIs400 ==
    (Matched /\ BadTemplate(LocalMap.Route, http.ps))
        => /\ routeBuilder(http.ps, LocalMap.Route).err = "error"
           /\ http.out.w.status = 400
           /\ http.out.outbound = <<>>

(***************************************************************************)
(* C16: when the built URL is empty, the outbound request cannot be        *)
(* constructed or the client's transport fails, the client gets 400 with   *)
(* the body "Request Failed" and nothing of a backend response.            *)
(***************************************************************************)
\* routeBuilder gave a URL and the request then failed before an answer
RequestFailed ==
    /\ Matched
    /\ routeBuilder(http.ps, LocalMap.Route).err = "nil"
    /\ \/ routeBuilder(http.ps, LocalMap.Route).URL = <<>>
       \/ ~UrlParses(http.out.route)
       \/ ~HasScheme(http.out.route)
       \/ http.backend.kind = "error"

C16_FailureIs400 ==
    RequestFailed
        => /\ http.out.w.status = 400
           /\ http.out.w.body = Delivered(<<"Request Failed">>)
           /\ http.out.w.header = <<>>

C16_Witness ==
    /\ RequestFailed
    /\ http.backend.kind = "error"
    /\ Len(http.out.outbound) = 1
    /\ http.up
    /\ http.out.w.status = 400
    /\ http.out.w.body = <<"Request Failed">>

(***************************************************************************)
(* C17: every request that matches a route of a known host ends in one of  *)
(* the fixed responses (the backend's status, 400 or 500), whatever the    *)
(* template, and the handler never panics.                                 *)
(***************************************************************************)
C17_NeverPanics ==
    Matched
        => /\ ~http.out.panicked
           /\ http.out.w.status \in
                {400, 500} \cup (IF http.backend.kind = "resp"
                                 THEN {http.backend.resp.StatusCode} ELSE {})

(***************************************************************************)
(* C18: the outbound request has, for every inbound header name other      *)
(* than X-Forwarded-By, one value, the inbound values joined with "," in   *)
(* their order, and X-Forwarded-By with the one value SillyProxy.          *)
(***************************************************************************)
RECURSIVE Joined(_)
Joined(values) ==
    IF Len(values) = 1 THEN values[1]
    ELSE values[1] \o <<",">> \o Joined(Tail(values))

C18_HeadersForwarded ==
    Served =>
        \A i \in 1..Len(http.out.outbound) :
            LET header == http.out.outbound[i].Header
            IN  /\ DOMAIN header = (DOMAIN http.r.Header) \cup {"X-Forwarded-By"}
                /\ \A name \in (DOMAIN http.r.Header) \ {"X-Forwarded-By"} :
                      header[name] = <<Joined(http.r.Header[name])>>
                /\ header["X-Forwarded-By"] = << <<"SillyProxy">> >>

C18_Witness ==
    /\ Served
    /\ Len(http.out.outbound) = 1
    /\ "X-Forwarded-By" \in DOMAIN http.r.Header
    /\ http.out.outbound[1].Header["Silly"]
         = << <<"first value", ",", "second value">> >>
    /\ http.out.outbound[1].Header["X-Forwarded-By"] = << <<"SillyProxy">> >>

(***************************************************************************)
(* C19, as stated: at most one outbound request per inbound request, and   *)
(* when the backend answers the client sees its status and its headers     *)
(* unchanged.                                                              *)
(***************************************************************************)
\* the backend has answered the outbound request
Answered ==
    /\ Matched
    /\ http.out.outbound # <<>>
    /\ http.backend.kind = "resp"

C19_HeadersUnchanged ==
    /\ Served => Len(http.out.outbound) <= 1
    /\ Answered
         => /\ http.out.w.status = http.backend.resp.StatusCode
            /\ http.out.w.header = http.backend.resp.Header

(***************************************************************************)
(* C19, amended: at most one outbound request per inbound request, and     *)
(* when the backend answers (3xx included) the client sees its status, the *)
(* names of its headers, and for each name one value, the backend's values *)
(* joined with ","; a header with one value, such as Location, is          *)
(* unchanged.                                                              *)
(***************************************************************************)
C19_NoRedirectFollowed ==
    /\ Served => Len(http.out.outbound) <= 1
    /\ Answered
         => /\ http.out.w.status = http.backend.resp.StatusCode
            /\ DOMAIN http.out.w.header = DOMAIN http.backend.resp.Header
            /\ \A name \in DOMAIN http.backend.resp.Header :
                  /\ http.out.w.header[name] = <<Joined(http.backend.resp.Header[name])>>
                  /\ Len(http.backend.resp.Header[name]) = 1
                       => http.out.w.header[name] = http.backend.resp.Header[name]

C19_Witness ==
    /\ Answered
    /\ http.backend.resp.StatusCode = 301
    /\ http.out.w.status = 301
    /\ http.out.w.header["Location"] = << <<"/", "x">> >>
    /\ "Set-Cookie" \in DOMAIN http.out.w.header
    /\ Len(http.out.outbound) = 1

(***************************************************************************)
(* C20: when copying the backend's body to the client fails after the      *)
(* backend's status and headers were written, the status of the response   *)
(* to the client is 500.                                                   *)
(***************************************************************************)
C20_CopyFailureIs500 ==
    (Answered /\ (~http.up \/ ~http.backend.resp.readOK))
        => http.out.w.status = 500

(***************************************************************************)
(* Vocabulary of the start-up                                              *)
(***************************************************************************)
\* the last SillyProxy call handed out a server
ServerReturned == call.n > 0 /\ ~call.server.nil

\* the minimum version the flag value stands for
FlagVersion(minTLSVer) ==
    IF minTLSVer \in {0, 1} THEN VersionTLS10
    ELSE IF minTLSVer = 2 THEN VersionTLS11
    ELSE IF minTLSVer = 3 THEN VersionTLS12
    ELSE VersionTLS10

BootCall == call'.n = call.n + 1

C22_FatalAtStartup ==
    [][ BootCall
          => /\ (\/ ~call'.routeFile.opens
                 \/ ~call'.routeFile.decodes
                 \/ call'.loadError \notin {"none", "nil"})
                  => /\ call'.err \in {"routemap", "load"}
                     /\ call'.server = NoServer
                     /\ call'.refreshers = call.refreshers
             /\ ~call'.server.nil
                  => /\ call'.loadError = "nil"
                     /\ loadErr' = "nil"
                     /\ call'.err = "nil"
                     /\ call'.refreshers = call.refreshers + 1 ]_vars

C22_Witness ==
    /\ call.n = 2
    /\ call.err = "load"
    /\ call.loadError = "fetch"
    /\ call.server = NoServer
    /\ call.refreshers = 1

(***************************************************************************)
(* C24: a routes document with an empty Host, Method or Path, or with a    *)
(* Route element that is neither a string nor a non-negative integer, is   *)
(* rejected at load time: SillyProxy returns an error and no handler is    *)
(* registered.                                                             *)
(***************************************************************************)
ValidElement(element) ==
    \/ element.t = "string"
    \/ element.t = "float64" /\ element.h >= 0 /\ element.h % 2 = 0

InvalidRoutes(file) ==
    /\ file.opens
    /\ file.decodes
    /\ \E i \in 1..Len(file.Routes) :
          \/ file.Routes[i].Host = <<>>
          \/ \E j \in 1..Len(file.Routes[i].MethodPathMaps) :
                LET m == file.Routes[i].MethodPathMaps[j]
                IN  \/ m.Method = ""
                    \/ m.Path = ""
                    \/ \E k \in 1..Len(m.Route) : ~ValidElement(m.Route[k])

C24_InvalidRoutesRejected ==
    (call.n > 0 /\ InvalidRoutes(call.routeFile))
        => /\ call.err = "routemap"
           /\ call.server = NoServer

(***************************************************************************)
(* C30, as stated: when several HostMaps have the same Host, no error is   *)
(* reported at load time, only the router of the last of them serves the   *)
(* host, and a request that matches only routes of the earlier ones gets   *)
(* 404.                                                                    *)
(***************************************************************************)
\* the positions of the HostMaps of the document for the host
BlocksOf(file, host) == {i \in 1..Len(file.Routes) : file.Routes[i].Host = host}

Last(S) == CHOOSE i \in S : \A j \in S : j <= i

\* the request matches a route of the MethodPathMaps
Hits(maps, r) ==
    \E i \in 1..Len(maps) : maps[i].Method = r.Method /\ maps[i].Path = r.Path

\* the host of the served request is in several HostMaps of the document
\* the server was built from
ServedTwice ==
    /\ Served
    /\ ServerReturned
    /\ Cardinality(BlocksOf(call.routeFile, SplitFirst(http.r.Host))) > 1

\* the request matches a route of an earlier HostMap and none of the last
OnlyEarlier ==
    LET blocks == BlocksOf(call.routeFile, SplitFirst(http.r.Host))
    IN  /\ \E i \in blocks \ {Last(blocks)} :
              Hits(call.routeFile.Routes[i].MethodPathMaps, http.r)
        /\ ~Hits(call.routeFile.Routes[Last(blocks)].MethodPathMaps, http.r)

\* a handler that answers belongs to the last HostMap of the host
ByLastBlock ==
    LET blocks == BlocksOf(call.routeFile, SplitFirst(http.r.Host))
        maps == call.routeFile.Routes[Last(blocks)].MethodPathMaps
    IN  http.out.code = 0 => \E i \in 1..Len(maps) : http.out.by = maps[i]

TypedYes(g, prompt) ==
    \E i \in 1..Len(g.asked) :
        g.asked[i].prompt = prompt /\ g.asked[i].choice \in {<<"y">>, <<"Y">>}

TypedNo(g, prompt) ==
    \E i \in 1..Len(g.asked) :
        g.asked[i].prompt = prompt /\ g.asked[i].choice \notin {<<"y">>, <<"Y">>}

\* the entry the run was asked to store
NewEntry(g) == [kind |-> "key", ver |-> g.args.ver]

\* a step that is one run of GenerateKeyStore
GenRun == gen.pc = "idle" /\ gen'.pc = "done"

\* an entry under hostname:certType is replaced only after a yes to the
\* overwrite prompt, and a no ends the run with an error and the file as
\* it was
OverwriteGuarded(before, g, after) ==
    /\ (g.old # NoEntry /\ EntryAt(after, g.target) # g.old)
          => TypedYes(g, "overwrite")
    /\ TypedNo(g, "overwrite") => (g.err # "nil" /\ after = before)

RuledOut(helloInfo, sfx, table) ==
    /\ ((IF helloInfo.ServerName = <<>> THEN Default ELSE helloInfo.ServerName) \o sfx)
           \in DOMAIN certMap
    /\ ~Intersects(helloInfo.CipherSuites, table)

SpecifiedCert(helloInfo) ==
    LET alias == IF helloInfo.ServerName = <<>> THEN Default ELSE helloInfo.ServerName
        supE == Intersects(helloInfo.CipherSuites, CiphersECDSA)
        supR == Intersects(helloInfo.CipherSuites, CiphersRSA)
    IN  IF (alias \o SfxECDSA) \in DOMAIN certMap /\ supE
        THEN [src |-> "hostECDSA", cert |-> certMap[alias \o SfxECDSA]]
        ELSE IF (alias \o SfxRSA) \in DOMAIN certMap /\ supR
        THEN [src |-> "hostRSA", cert |-> certMap[alias \o SfxRSA]]
        ELSE IF ECDSAPopulated /\ supE /\ ~RuledOut(helloInfo, SfxECDSA, CiphersECDSA)
        THEN [src |-> "ECDSAdefault", cert |-> ECDSAdefault]
        ELSE IF RSAPopulated /\ supR /\ ~RuledOut(helloInfo, SfxRSA, CiphersRSA)
        THEN [src |-> "RSAdefault", cert |-> RSAdefault]
        ELSE NoCert

C25_AsSpecified(helloInfo, ret) ==
    /\ ret = SpecifiedCert(helloInfo)
    /\ RuledOut(helloInfo, SfxECDSA, CiphersECDSA) => ret.src # "ECDSAdefault"
    /\ RuledOut(helloInfo, SfxRSA, CiphersRSA) => ret.src # "RSAdefault"
    /\ (~Intersects(helloInfo.CipherSuites, CiphersECDSA)
          /\ ~Intersects(helloInfo.CipherSuites, CiphersRSA)) => ret = NoCert

C25_SelectionAlgorithm ==
    /\ \A helloInfo \in Hellos : C25_AsSpecified(helloInfo, returnCert(helloInfo, Store))
    /\ hs.pc = "done" => C25_AsSpecified(hs.hello, hs.ret)

C25_Witness ==
    /\ hs.pc = "done"
    /\ hs.hello = [ServerName |-> HostH, CipherSuites |-> <<156>>]
    /\ (HostH \o SfxECDSA) \in DOMAIN certMap
    /\ (HostH \o SfxRSA) \notin DOMAIN certMap
    /\ ECDSAPopulated
    /\ RSAPopulated
    /\ hs.ret = [src |-> "RSAdefault", cert |-> RSAdefault]

(***************************************************************************)
(* C26: when routeBuilder fails, on an index out of range or an element    *)
(* of an unsupported type, the URL it returns with the error is empty,     *)
(* however many elements came before the failing one.                      *)
(***************************************************************************)
C26_FailureUrlEmpty ==
    (Matched /\ routeBuilder(http.ps, LocalMap.Route).err = "error")
        => routeBuilder(http.ps, LocalMap.Route).URL = <<>>

(***************************************************************************)
(* C27: when the outbound client returned a response, relayed or not, the  *)
(* response body has been closed when the handler returns; when it         *)
(* returned none, nothing has been closed.                                 *)
(***************************************************************************)
\* client.Do was called and returned a response
ResponseObtained == Answered /\ ~http.out.panicked

C27_BodyClosed ==
    Served
        => IF ResponseObtained
           THEN http.out.closed >= 1
           ELSE http.out.closed = 0

C27_Witness ==
    /\ ResponseObtained
    /\ ~http.up
    /\ http.out.closed >= 1
    /\ http.out.w.status = http.backend.resp.StatusCode

(***************************************************************************)
(* C28: an entry whose private key cannot be parsed, or whose certificate  *)
(* chain is empty, is dropped without aborting the load: the load of a     *)
(* keystore with a default alias returns nil, every well-formed entry of   *)
(* the keystore is in the store afterwards, and what the store held under  *)
(* a dropped alias is as it was.                                           *)
(***************************************************************************)
\* the entries the alias loop does not index
Dropped(ks) == { a \in DOMAIN ks : ks[a].kind \in {"badkey", "nochain", "nopem"} }

\* a step in which loadCertMap ran on a keystore that has a default alias
\* and an entry to drop
LoadWithDropped ==
    /\ archive' = archive
    /\ archive.readable
    /\ DefaultAliasExists(archive.entries)
    /\ Dropped(archive.entries) # {}

\* what the store holds under alias in store value st
HeldUnder(st, alias) ==
    IF alias = Default \o SfxECDSA THEN <<st.ECDSAdefaultExists, st.ECDSAdefault>>
    ELSE IF alias = Default \o SfxRSA THEN <<st.RSAdefaultExists, st.RSAdefault>>
    ELSE IF alias \in DOMAIN st.certMap THEN <<TRUE, st.certMap[alias]>>
    ELSE <<FALSE, ZeroCert>>

\* the certMap the load starts from: SillyProxy makes a new one
MapBefore == IF phase = "boot" THEN <<>> ELSE certMap

C28_DroppedEntryDoesNotAbort ==
    [][ LoadWithDropped
          => /\ loadErr' = "nil"
             /\ phase' # "crashed"
             /\ \A a \in DOMAIN archive.entries \ Dropped(archive.entries) :
                    HeldUnder(Store', a) = <<TRUE, CertOf(a, archive.entries[a])>>
             /\ \A a \in Dropped(archive.entries) :
                    HeldUnder(Store', a) = HeldUnder([Store EXCEPT !.certMap = MapBefore], a) ]_vars

(***************************************************************************)
(* C29: only the aliases default:ECDSA and default:RSA fill the default    *)
(* slots; every alias h:ALG of another host h, also of a host whose name   *)
(* begins with "default", is indexed in certMap under the full alias, so   *)
(* after a successful load a handshake with SNI h and suites supporting    *)
(* ALG is served h's own entry, and the default slots hold the entries of  *)
(* the default aliases whatever the order of the aliases.                  *)
(***************************************************************************)
\* a step in which loadCertMap ran and returned nil
LoadSucceeded ==
    /\ archive' = archive
    /\ archive.readable
    /\ loadErr' = "nil"

\* the algorithm suffix of alias
AlgOf(alias) == <<alias[Len(alias)]>>

\* a ClientHello for host h whose suites support only the algorithm of sfx
HelloFor(h, sfx) ==
    [ServerName |-> h,
     CipherSuites |-> IF sfx = SfxECDSA THEN <<49195>> ELSE <<156>>]

C29_OnlyDefaultAliasesFillSlots ==
    [][ LoadSucceeded
          => /\ \A a \in DOMAIN archive.entries :
                   HostOf(a) # Default
                     => /\ a \in DOMAIN certMap'
                        /\ returnCert(HelloFor(HostOf(a), AlgOf(a)), Store').cert
                             = CertOf(a, archive.entries[a])
             /\ (Default \o SfxECDSA) \in DOMAIN archive.entries
                   => ECDSAdefault' = CertOf(Default \o SfxECDSA,
                                             archive.entries[Default \o SfxECDSA])
             /\ (Default \o SfxRSA) \in DOMAIN archive.entries
                   => RSAdefault' = CertOf(Default \o SfxRSA,
                                           archive.entries[Default \o SfxRSA]) ]_vars

====
